---- MODULE Spec2Model ----
(***************************************************************************)
(* FTIR annotator: the rule matcher (src/src/lib/ruleMatcher.js) and the   *)
(* peak detector (second half of src/src/lib/csvParser.js).                *)
(*                                                                         *)
(* Numbers are exact decimals in fixed point:                              *)
(*   wavenumbers, positions, FWHM   in 0.001 cm-1                          *)
(*   absorbance, intensity, height  in 0.00001 absorbance units            *)
(*   confidences, gaps              in 0.0001                              *)
(*   transmittance                  in 0.1 percent                         *)
(*   height / prominence thresholds in 0.0000001 absorbance units          *)
(* toFixed(n) is modelled as rounding (half up) to the n-th decimal, so a  *)
(* value with more decimals than n is changed by it.  Binary floating      *)
(* point representation error is not modelled.                             *)
(***************************************************************************)
EXTENDS Integers, Sequences, FiniteSets, TLC

VARIABLES
    peaks,          \* matcher input: the detected peak list
    rulesDb,        \* matcher input: the rules database
    annotations,    \* result of matchAllPeaks
    ambiguities,    \* result of detectAmbiguities
    gapThreshold,   \* confidenceGapThreshold of the last detectAmbiguities call
    summary,        \* summary returned by annotatePeaks
    signal,         \* findPeaks arguments: data, height, prominence, distance
    found,          \* result of findPeaks
    spectrum,       \* detectPeaks arguments: wavenumber, transmittance, options
    peakList,       \* result of detectPeaks
    args,           \* arguments of a preprocessing function called on its own
    returned,       \* what that function returned
    file,           \* the file handed to the uploader
    store,          \* the application store
    pc              \* which call has returned

matcherVars == <<peaks, rulesDb, annotations, ambiguities, gapThreshold, summary>>
detectorVars == <<signal, found, spectrum, peakList>>
functionVars == <<args, returned>>
appVars == <<file, store>>
vars == <<matcherVars, detectorVars, functionVars, appVars, pc>>

\* ------------------------------------------------------------ the store
\* a value that may be null: the empty sequence, or the value in a sequence
null == <<>>
some(value) == <<value>>

StoreSmoothingWindow == 7
StorePeakHeightThreshold == 100000      \* 0.01
StoreWavenumberTolerance == 5           \* percent
StoreAmbiguityThreshold == 10           \* percent

\* the state the store is created with
InitialStore ==
    [ spectrum |-> null,
      peaks |-> null,
      annotations |-> null,
      ambiguities |-> null,
      peakAnnotations |-> <<>>,
      ui |-> [status |-> "idle"],
      peakDetectionParams |->
          [ smoothingWindow |-> StoreSmoothingWindow,
            peakHeightThreshold |-> StorePeakHeightThreshold ],
      ruleMatchingParams |->
          [ wavenumberTolerance |-> StoreWavenumberTolerance,
            ambiguityThreshold |-> StoreAmbiguityThreshold ] ]

\* ------------------------------------------------------------ bounds
MaxPeaks == 2

\* ------------------------------------------------------------ helpers
\* a missing (undefined) numeric field of a rule record
Undefined == 0 - 1

Max(a, b) == IF a >= b THEN a ELSE b
Min(a, b) == IF a <= b THEN a ELSE b

\* nearest integer to num / den, halves up (num >= 0, den > 0)
RoundDiv(num, den) == (2 * num + den) \div (2 * den)

\* Number.prototype.toFixed: x, given in units of 1/den of the target's
\* smallest step `step`, rounded to a multiple of `step`
toFixed(x, den, step) ==
    IF x < 0 THEN 0 - RoundDiv(0 - x, den) * step ELSE RoundDiv(x, den) * step

RECURSIVE SeqMax(_)
SeqMax(s) ==
    IF Len(s) = 1 THEN s[1] ELSE Max(s[1], SeqMax(Tail(s)))

\* ------------------------------------------------------------ ruleMatcher.js
DefaultTolerance == 5            \* percent of the range span
SecondaryTolerance == 10         \* percent of the range span
MaxWavenumberGap == 200000       \* 200 cm-1
DefaultConfidence == 7000        \* 0.7
ShapeBonus == 500                \* 0.05
IntensityBonus == 500            \* 0.05
SecondaryBonusStep == 1000       \* 0.1 per matched secondary spec
One == 10000                     \* confidence 1.0
TopN == 5
InlineGap == 500                 \* 0.05, the gap matchAllPeaks compares with

DefaultRange == <<0, 10000000>>  \* [0, 10000] cm-1

\* mutant: the bounds of the gate taken as exclusive
wavenumberMatch_Exclusive(peakPosition, ruleRange, tolerance) ==
    LET minWn == ruleRange[1]
        maxWn == ruleRange[2]
        rangeSize == maxWn - minWn
    IN  /\ 100 * minWn - rangeSize * tolerance < 100 * peakPosition
        /\ 100 * peakPosition < 100 * maxWn + rangeSize * tolerance

wavenumberMatch(peakPosition, ruleRange, tolerance) ==
    LET minWn == ruleRange[1]
        maxWn == ruleRange[2]
        rangeSize == maxWn - minWn
        \* tol = rangeSize * tolerance / 100, compared exactly
    IN  /\ 100 * minWn - rangeSize * tolerance <= 100 * peakPosition
        /\ 100 * peakPosition <= 100 * maxWn + rangeSize * tolerance

\* FWHM bands in cm-1
shapeSpecs ==
    ("sharp" :> <<10, 50>>) @@ ("medium" :> <<50, 100>>) @@
    ("broad" :> <<100, 300>>) @@ ("very-broad" :> <<300, 1200>>) @@
    ("medium-broad" :> <<80, 150>>)

\* mutant: the band taken without its bounds
shapeMatch_OpenBand(peakFWHM, ruleShape) ==
    IF ruleShape \notin DOMAIN shapeSpecs
    THEN [ok |-> TRUE, bonus |-> 0]
    ELSE LET minFwhm == shapeSpecs[ruleShape][1]
             maxFwhm == shapeSpecs[ruleShape][2]
         IN  IF 1000 * minFwhm < peakFWHM /\ peakFWHM < 1000 * maxFwhm
             THEN [ok |-> TRUE, bonus |-> ShapeBonus]
             ELSE IF peakFWHM < 700 * minFwhm
             THEN [ok |-> FALSE, bonus |-> 0 - 2000]
             ELSE IF peakFWHM > 1500 * maxFwhm
             THEN [ok |-> FALSE, bonus |-> 0 - 2000]
             ELSE [ok |-> TRUE, bonus |-> 0]

shapeMatch(peakFWHM, ruleShape) ==
    IF ruleShape \notin DOMAIN shapeSpecs
    THEN [ok |-> TRUE, bonus |-> 0]
    ELSE LET minFwhm == shapeSpecs[ruleShape][1]
             maxFwhm == shapeSpecs[ruleShape][2]
         IN  IF 1000 * minFwhm <= peakFWHM /\ peakFWHM <= 1000 * maxFwhm
             THEN [ok |-> TRUE, bonus |-> ShapeBonus]
             ELSE IF peakFWHM < 700 * minFwhm
             THEN [ok |-> FALSE, bonus |-> 0 - 2000]
             ELSE IF peakFWHM > 1500 * maxFwhm
             THEN [ok |-> FALSE, bonus |-> 0 - 2000]
             ELSE [ok |-> TRUE, bonus |-> 0]

\* normalised-intensity bands in hundredths
thresholds ==
    ("strong" :> <<50, 100>>) @@ ("medium to strong" :> <<40, 100>>) @@
    ("medium" :> <<20, 70>>) @@ ("weak to medium" :> <<10, 60>>) @@
    ("weak" :> <<1, 30>>) @@ ("variable" :> <<0, 100>>)

intensityCheck(peakIntensity, ruleIntensity, spectrumMaxIntensity) ==
    IF ruleIntensity \notin DOMAIN thresholds
    THEN [ok |-> TRUE, bonus |-> 0]
    ELSE LET minThresh == thresholds[ruleIntensity][1]
             maxThresh == thresholds[ruleIntensity][2]
             \* normIntensity = peakIntensity / spectrumMaxIntensity, or 0
             inBand ==
                 IF spectrumMaxIntensity > 0
                 THEN /\ minThresh * spectrumMaxIntensity <= 100 * peakIntensity
                      /\ 100 * peakIntensity <= maxThresh * spectrumMaxIntensity
                 ELSE minThresh <= 0 /\ 0 <= maxThresh
         IN  IF inBand THEN [ok |-> TRUE, bonus |-> IntensityBonus]
                       ELSE [ok |-> TRUE, bonus |-> 0]

Abs(x) == IF x < 0 THEN 0 - x ELSE x

\* mutant: the last satisfying peak instead of the first
firstSecondaryPeak_Last(k, specRange, allPeaks, primaryPosition, maxGap) ==
    LET hits == { j \in k..Len(allPeaks) :
                    /\ wavenumberMatch(allPeaks[j].position, specRange, SecondaryTolerance)
                    /\ Abs(allPeaks[j].position - primaryPosition) <= maxGap }
    IN  IF hits = {} THEN 0 ELSE CHOOSE j \in hits : \A h \in hits : h <= j

\* index (1-based) of the first peak satisfying a secondary spec, 0 if none
RECURSIVE firstSecondaryPeak(_, _, _, _, _)
firstSecondaryPeak(k, specRange, allPeaks, primaryPosition, maxGap) ==
    IF k > Len(allPeaks) THEN 0
    ELSE IF /\ wavenumberMatch(allPeaks[k].position, specRange, SecondaryTolerance)
            /\ Abs(allPeaks[k].position - primaryPosition) <= maxGap
    THEN k
    ELSE firstSecondaryPeak(k + 1, specRange, allPeaks, primaryPosition, maxGap)

RECURSIVE secondaryLoop(_, _, _, _, _, _)
secondaryLoop(k, matches, primaryPosition, secondarySpecs, allPeaks, maxGap) ==
    IF k > Len(secondarySpecs) THEN matches
    ELSE LET spec == secondarySpecs[k]
             specRange == IF spec.wavenumber = <<>> THEN DefaultRange
                                                    ELSE spec.wavenumber
             f == firstSecondaryPeak(1, specRange, allPeaks, primaryPosition, maxGap)
         IN  IF f = 0 /\ spec.required
             THEN <<>>
             ELSE secondaryLoop(
                      k + 1,
                      IF f = 0 THEN matches
                      ELSE Append(matches, [peakIdx |-> f - 1, spec |-> spec]),
                      primaryPosition, secondarySpecs, allPeaks, maxGap)

\* primaryPeakIdx is 0-based, as in the source
findSecondaryPeaks(primaryPeakIdx, secondarySpecs, allPeaks, maxWavenumberGap) ==
    secondaryLoop(1, <<>>, allPeaks[primaryPeakIdx + 1].position,
                  secondarySpecs, allPeaks, maxWavenumberGap)

\* mutant: the upper clamp forgotten
clamp01_NoUpper(x) == Max(0, x)

clamp01(x) == Max(0, Min(x, One))

baseConfidenceOf(subtype) ==
    IF subtype.confidence = Undefined \/ subtype.confidence = 0
    THEN DefaultConfidence
    ELSE subtype.confidence

primaryRangeOf(subtype) ==
    IF subtype.primaryPeak.wavenumber = <<>> THEN DefaultRange
    ELSE subtype.primaryPeak.wavenumber

primaryShapeOf(subtype) ==
    IF subtype.primaryPeak.shape = "" THEN "sharp" ELSE subtype.primaryPeak.shape

ruleIntensityOf(subtype) ==
    IF subtype.primaryPeak.intensity = "" THEN "medium"
    ELSE subtype.primaryPeak.intensity

\* the two `continue` tests of the subtype loop
subtypePasses(peak, subtype) ==
    /\ wavenumberMatch(peak.position, primaryRangeOf(subtype), DefaultTolerance)
    /\ shapeMatch(peak.fwhm, primaryShapeOf(subtype)).ok

hasRequired(secondaryPeaks) ==
    \E k \in 1..Len(secondaryPeaks) : secondaryPeaks[k].required

\* mutant: no penalty for a missing required secondary peak
adjustedConfidence2_NoPenalty(base, shapeBonus, intensityBonus, nMatches, requiredMissing) ==
    LET first == clamp01(base + shapeBonus + intensityBonus)
    IN  IF requiredMissing
        THEN 2 * first
        ELSE 2 * clamp01(first + SecondaryBonusStep * nMatches)

\* mutant: the clamp after the secondary bonus forgotten
adjustedConfidence2_NoSecondClamp(base, shapeBonus, intensityBonus, nMatches, requiredMissing) ==
    LET first == clamp01(base + shapeBonus + intensityBonus)
    IN  IF requiredMissing
        THEN first
        ELSE 2 * (first + SecondaryBonusStep * nMatches)

\* adjustedConfidence after the secondary step, in units of 0.00005 so that
\* the halving is exact
adjustedConfidence2(base, shapeBonus, intensityBonus, nMatches, requiredMissing) ==
    LET first == clamp01(base + shapeBonus + intensityBonus)
    IN  IF requiredMissing
        THEN first
        ELSE 2 * clamp01(first + SecondaryBonusStep * nMatches)

\* the body of the subtype loop after the two `continue` tests
buildCandidate(peakIdx, peak, modeKey, mode, subtype, allPeaks, maxIntensity) ==
    LET sm == shapeMatch(peak.fwhm, primaryShapeOf(subtype))
        ic == intensityCheck(peak.intensity, ruleIntensityOf(subtype), maxIntensity)
        baseConfidence == baseConfidenceOf(subtype)
        secondaryPeaks == subtype.secondaryPeaks
        secondaryMatches ==
            findSecondaryPeaks(peakIdx, secondaryPeaks, allPeaks, MaxWavenumberGap)
        requiredMissing == hasRequired(secondaryPeaks) /\ Len(secondaryMatches) = 0
        secondaryBonus == SecondaryBonusStep * Len(secondaryMatches)
    IN  [ vibrationMode |-> IF mode.name = "" THEN modeKey ELSE mode.name,
          source |-> IF subtype.source = "" THEN "unknown" ELSE subtype.source,
          confidence |->
              toFixed(adjustedConfidence2(baseConfidence, sm.bonus, ic.bonus,
                                          Len(secondaryMatches), requiredMissing),
                      20, 10),
          peakIndex |-> peakIdx,
          ruleKey |-> modeKey,
          ruleSubtype |-> IF subtype.id = "" THEN "?" ELSE subtype.id,
          secondaryPeaksFound |-> Len(secondaryMatches),
          scoring |->
              [ baseConfidence |-> toFixed(baseConfidence, 10, 10),
                shapeBonus |-> toFixed(sm.bonus, 10, 10),
                intensityBonus |-> toFixed(ic.bonus, 10, 10),
                secondaryBonus |-> toFixed(secondaryBonus, 10, 10),
                wavenumberMatch |-> TRUE,
                shapeMatch |-> sm.ok,
                intensityMatch |-> ic.ok,
                secondaryMatch |->
                    Len(secondaryMatches) > 0 \/ Len(secondaryPeaks) = 0 ] ]

\* the inner loop: the subtypes of one mode, from subtype k on
RECURSIVE subtypeLoop(_, _, _, _, _, _, _)
subtypeLoop(k, peakIdx, peak, modeKey, mode, allPeaks, maxIntensity) ==
    IF k > Len(mode.subTypes) THEN <<>>
    ELSE LET rest == subtypeLoop(k + 1, peakIdx, peak, modeKey, mode,
                                 allPeaks, maxIntensity)
         IN  IF subtypePasses(peak, mode.subTypes[k])
             THEN <<buildCandidate(peakIdx, peak, modeKey, mode, mode.subTypes[k],
                                   allPeaks, maxIntensity)>> \o rest
             ELSE rest

\* the outer loop: Object.entries(rulesDb.vibrationModes), from mode m on
RECURSIVE modeLoop(_, _, _, _, _, _)
modeLoop(m, peakIdx, peak, db, allPeaks, maxIntensity) ==
    IF m > Len(db.vibrationModes) THEN <<>>
    ELSE subtypeLoop(1, peakIdx, peak, db.vibrationModes[m].key,
                     db.vibrationModes[m], allPeaks, maxIntensity)
         \o modeLoop(m + 1, peakIdx, peak, db, allPeaks, maxIntensity)

\* `candidates` when the loops are done, before the sort
collectCandidates(peakIdx, peak, db, allPeaks) ==
    modeLoop(1, peakIdx, peak, db, allPeaks,
             SeqMax([i \in 1..Len(allPeaks) |-> allPeaks[i].intensity]))

\* mutant: an unstable sort, equal confidences end up in reverse order
RECURSIVE insertByConfidence_Unstable(_, _)
insertByConfidence_Unstable(sorted, c) ==
    IF sorted = <<>> THEN <<c>>
    ELSE IF sorted[1].confidence > c.confidence
    THEN <<sorted[1]>> \o insertByConfidence_Unstable(Tail(sorted), c)
    ELSE <<c>> \o sorted

\* insert c behind every element whose confidence is not smaller (stable)
RECURSIVE insertByConfidence(_, _)
insertByConfidence(sorted, c) ==
    IF sorted = <<>> THEN <<c>>
    ELSE IF sorted[1].confidence >= c.confidence
    THEN <<sorted[1]>> \o insertByConfidence(Tail(sorted), c)
    ELSE <<c>> \o sorted

\* candidates.sort((a, b) => b.confidence - a.confidence), a stable sort
RECURSIVE sortByConfidence(_)
sortByConfidence(s) ==
    IF s = <<>> THEN <<>>
    ELSE insertByConfidence(sortByConfidence(SubSeq(s, 1, Len(s) - 1)), s[Len(s)])

slice(s, n) == SubSeq(s, 1, Min(n, Len(s)))

matchPeakCandidates(peakIdx, peak, db, allPeaks) ==
    slice(sortByConfidence(collectCandidates(peakIdx, peak, db, allPeaks)), TopN)

inlineAmbiguous(candidates) ==
    /\ Len(candidates) > 1
    /\ candidates[1].confidence - candidates[2].confidence < InlineGap

\* mutant: peakIndex one-based
buildAnnotation_OneBased(peakIdx, peak, candidates) ==
    [ peakIndex |-> peakIdx + 1,
      peakPosition |-> toFixed(peak.position, 10, 10),
      peakIntensity |-> toFixed(peak.intensity, 10, 10),
      peakFwhm |-> toFixed(peak.fwhm, 10, 10),
      peakSNR |-> toFixed(peak.snr, 1, 1),
      primaryMatch |-> candidates[1],
      topFiveCandidates |-> candidates,
      numCandidates |-> Len(candidates),
      confidenceRange |-> [i \in 1..Len(candidates) |-> candidates[i].confidence],
      isAmbiguous |-> inlineAmbiguous(candidates) ]

buildAnnotation(peakIdx, peak, candidates) ==
    [ peakIndex |-> peakIdx,
      peakPosition |-> toFixed(peak.position, 10, 10),
      peakIntensity |-> toFixed(peak.intensity, 10, 10),
      peakFwhm |-> toFixed(peak.fwhm, 10, 10),
      peakSNR |-> toFixed(peak.snr, 1, 1),
      primaryMatch |-> candidates[1],
      topFiveCandidates |-> candidates,
      numCandidates |-> Len(candidates),
      confidenceRange |-> [i \in 1..Len(candidates) |-> candidates[i].confidence],
      isAmbiguous |-> inlineAmbiguous(candidates) ]

RECURSIVE matchLoop(_, _, _)
matchLoop(k, allPeaks, db) ==
    IF k > Len(allPeaks) THEN <<>>
    ELSE LET candidates == matchPeakCandidates(k - 1, allPeaks[k], db, allPeaks)
             rest == matchLoop(k + 1, allPeaks, db)
         IN  IF Len(candidates) > 0
             THEN <<buildAnnotation(k - 1, allPeaks[k], candidates)>> \o rest
             ELSE rest

matchAllPeaks(allPeaks, db) == matchLoop(1, allPeaks, db)

\* mutant: a gap equal to the threshold not emitted
gapEmits_Strict(gap, threshold) == gap < threshold

gapEmits(gap, threshold) == gap <= threshold

buildAmbiguity(annotation) ==
    LET candidates == annotation.topFiveCandidates
        conf1 == candidates[1].confidence
        conf2 == candidates[2].confidence
    IN  [ peakIndex |-> annotation.peakIndex,
          peakPosition |-> annotation.peakPosition,
          peakIntensity |-> annotation.peakIntensity,
          peakFwhm |-> annotation.peakFwhm,
          topConfidence |-> toFixed(conf1, 10, 10),
          secondConfidence |-> toFixed(conf2, 10, 10),
          confidenceGap |-> toFixed(conf1 - conf2, 10, 10),
          topCandidates |-> SubSeq(candidates, 1, 2),
          allCandidates |-> candidates ]

RECURSIVE ambiguityLoop(_, _, _)
ambiguityLoop(k, anns, threshold) ==
    IF k > Len(anns) THEN <<>>
    ELSE LET candidates == anns[k].topFiveCandidates
             rest == ambiguityLoop(k + 1, anns, threshold)
         IN  IF /\ Len(candidates) >= 2
                /\ gapEmits(candidates[1].confidence - candidates[2].confidence,
                            threshold)
             THEN <<buildAmbiguity(anns[k])>> \o rest
             ELSE rest

detectAmbiguities(anns, confidenceGapThreshold) ==
    ambiguityLoop(1, anns, confidenceGapThreshold)

annotatePeaks(allPeaks, db, ambiguityThreshold) ==
    LET anns == matchAllPeaks(allPeaks, db)
        ambs == detectAmbiguities(anns, ambiguityThreshold)
    IN  [ annotations |-> anns,
          ambiguities |-> ambs,
          summary |-> [ totalPeaks |-> Len(allPeaks),
                        annotatedPeaks |-> Len(anns),
                        ambiguousPeaks |-> Len(ambs) ] ]

\* ------------------------------------------------------------ matcher inputs
Range(a, b) == <<1000 * a, 1000 * b>>

Secondary(range, required) == [wavenumber |-> range, required |-> required]

Subtype(id, confidence, range, shape, intensity, secondaryPeaks) ==
    [ id |-> id, source |-> id, confidence |-> confidence,
      primaryPeak |-> [wavenumber |-> range, shape |-> shape,
                       intensity |-> intensity],
      secondaryPeaks |-> secondaryPeaks ]

\* a representative catalogue in the layout of ftir-rules-database.json:
\* vibrationModes in Object.entries order, each with its subTypes
Catalogue ==
    << [ key |-> "carbonyl", name |-> "C=O stretch",
         subTypes |-> <<
           Subtype("ketone", 7000, Range(1700, 1750), "sharp", "strong", <<>>),
           Subtype("ester", 9500, Range(1700, 1750), "sharp", "strong",
                   <<Secondary(Range(1550, 1650), FALSE)>>),
           Subtype("acid", 9050, Range(1700, 1750), "sharp", "medium",
                   <<Secondary(Range(1550, 1650), TRUE),
                     Secondary(Range(1690, 1760), FALSE)>>) >> ],
       [ key |-> "alkene", name |-> "",
         subTypes |-> <<
           Subtype("conjugated", Undefined, Range(1600, 1720), "doublet", "",
                   <<Secondary(Range(1690, 1760), FALSE)>>),
           Subtype("", 0, Range(1650, 1800), "medium", "weak",
                   <<Secondary(<<>>, TRUE)>>) >> ],
       [ key |-> "amide", name |-> "Amide I",
         subTypes |-> <<
           Subtype("primary", 7000, Range(1610, 1710), "medium-broad", "variable",
                   <<Secondary(Range(1550, 1650), FALSE)>>),
           Subtype("lactam", 10000, Range(1700, 1750), "", "variable",
                   <<Secondary(Range(2800, 3000), TRUE)>>),
           Subtype("imide", 7500, <<>>, "shoulder", "weak to medium", <<>>) >> ],
       [ key |-> "ring", name |-> "Ring mode",
         subTypes |-> <<
           Subtype("breathing", 500, Range(1590, 1610), "sharp", "medium", <<>>),
           Subtype("overtone", 500, Range(1590, 1610), "doublet", "medium",
                   <<>>) >> ] >>

RECURSIVE subTypesBefore(_)
subTypesBefore(m) ==
    IF m = 1 THEN 0
    ELSE subTypesBefore(m - 1) + Len(Catalogue[m - 1].subTypes)

CatalogueSize == subTypesBefore(Len(Catalogue) + 1)

\* a database holding the modes a..b of the catalogue
ModeRun(a, b) == [vibrationModes |-> SubSeq(Catalogue, a, b)]

\* a database holding one mode with a single one of its subtypes
Single(m, k) ==
    [ vibrationModes |->
        << [ key |-> Catalogue[m].key, name |-> Catalogue[m].name,
             subTypes |-> <<Catalogue[m].subTypes[k]>> ] >> ]

RuleDatabases ==
    {[vibrationModes |-> <<>>]}
    \cup {[vibrationModes |-> <<[key |-> "empty", name |-> "", subTypes |-> <<>>]>>]}
    \cup {ModeRun(a, b) : a \in 1..Len(Catalogue), b \in 1..Len(Catalogue)}
    \cup UNION { {Single(m, k) : k \in 1..Len(Catalogue[m].subTypes)} :
                 m \in 1..Len(Catalogue) }

Positions == {1600000, 1697490, 1697500, 1715000}
Fwhms == {30000, 75010, 150000}
Intensities == {20000, 80000}

\* the FWHM on a band bound is paired with the strong intensity only
PeakPool ==
    { [ position |-> p, intensity |-> w[1], fwhm |-> w[2], height |-> w[1],
        prominence |-> 4000, snr |-> w[1] \div 100, index |-> p \div 1000 ] :
      p \in Positions,
      w \in { v \in Intensities \X Fwhms : v[2] = 150000 => v[1] = 80000 } }

\* peak lists as detectPeaks returns them: by descending position
PeakLists ==
    UNION { { s \in [1..n -> PeakPool] :
                \A k \in 1..(n - 1) : s[k].position > s[k + 1].position } :
            n \in 0..MaxPeaks }

GapThresholds == {0, 500, 1000}

\* ------------------------------------------------------------ specification
Init ==
    /\ peaks \in PeakLists
    /\ rulesDb \in RuleDatabases
    /\ annotations = <<>>
    /\ ambiguities = <<>>
    /\ gapThreshold = Undefined
    /\ summary = [totalPeaks |-> 0, annotatedPeaks |-> 0, ambiguousPeaks |-> 0]
    /\ signal = <<>>
    /\ found = <<>>
    /\ spectrum = <<>>
    /\ peakList = <<>>
    /\ args = <<>>
    /\ returned = <<>>
    /\ file = <<>>
    /\ store = InitialStore
    /\ pc = "idle"

MatchAllPeaks ==
    /\ pc = "idle"
    /\ annotations' = matchAllPeaks(peaks, rulesDb)
    /\ pc' = "matched"
    /\ UNCHANGED <<peaks, rulesDb, ambiguities, gapThreshold, summary>>
    /\ UNCHANGED detectorVars
    /\ UNCHANGED functionVars
    /\ UNCHANGED appVars

DetectAmbiguities ==
    /\ pc = "matched"
    /\ \E t \in GapThresholds :
          /\ ambiguities' = detectAmbiguities(annotations, t)
          /\ gapThreshold' = t
    /\ pc' = "detected"
    /\ UNCHANGED <<peaks, rulesDb, annotations, summary>>
    /\ UNCHANGED detectorVars
    /\ UNCHANGED functionVars
    /\ UNCHANGED appVars

AnnotatePeaks ==
    /\ pc = "idle"
    /\ \E t \in GapThresholds :
          LET r == annotatePeaks(peaks, rulesDb, t)
          IN  /\ annotations' = r.annotations
              /\ ambiguities' = r.ambiguities
              /\ summary' = r.summary
              /\ gapThreshold' = t
    /\ pc' = "annotated"
    /\ UNCHANGED <<peaks, rulesDb>>
    /\ UNCHANGED detectorVars
    /\ UNCHANGED functionVars
    /\ UNCHANGED appVars

Next == MatchAllPeaks \/ DetectAmbiguities \/ AnnotatePeaks

Spec == Init /\ [][Next]_vars

\* ------------------------------------------------------------ claims: matcher
Matched == pc \in {"matched", "annotated"}
Detected == pc \in {"detected", "annotated"}

\* every (annotation, candidate) position of the current annotations
CandidateSlots ==
    { <<a, c>> \in (1..Len(annotations)) \X (1..TopN + 1) :
        c <= Len(annotations[a].topFiveCandidates) }

CandidateAt(slot) == annotations[slot[1]].topFiveCandidates[slot[2]]

\* every (mode, subtype) position of the rules database
SubtypeSlots ==
    { <<m, k>> \in (1..Len(rulesDb.vibrationModes)) \X (1..CatalogueSize) :
        k <= Len(rulesDb.vibrationModes[m].subTypes) }

SubtypeAt(slot) == rulesDb.vibrationModes[slot[1]].subTypes[slot[2]]

KeyOf(slot) == rulesDb.vibrationModes[slot[1]].key
IdOf(slot) == IF SubtypeAt(slot).id = "" THEN "?" ELSE SubtypeAt(slot).id

\* the database entry a candidate was built from
SlotOf(cand) ==
    CHOOSE slot \in SubtypeSlots :
        KeyOf(slot) = cand.ruleKey /\ IdOf(slot) = cand.ruleSubtype

\* rank of a database entry in iteration order (mode order, then subtype order)
Rank(slot) == CatalogueSize * slot[1] + slot[2]

\* a required secondary spec of the candidate's subtype that no peak satisfies
RequiredUnmatched(cand) ==
    LET specs == SubtypeAt(SlotOf(cand)).secondaryPeaks
    IN  \E k \in 1..Len(specs) :
          /\ specs[k].required
          /\ \A q \in 1..Len(peaks) :
               ~ ( /\ LET r == IF specs[k].wavenumber = <<>> THEN DefaultRange
                                ELSE specs[k].wavenumber
                      IN  /\ 10 * r[1] - (r[2] - r[1]) <= 10 * peaks[q].position
                          /\ 10 * peaks[q].position <= 10 * r[2] + (r[2] - r[1])
                   /\ Abs(peaks[q].position - peaks[cand.peakIndex + 1].position)
                        <= 200000 )

\* C1: every candidate of every annotation has a confidence in [0, 1]
C1_ConfidenceInUnitInterval ==
    Matched =>
        \A slot \in CandidateSlots :
            /\ 0 <= CandidateAt(slot).confidence
            /\ CandidateAt(slot).confidence <= 10000

\* C1 witness: one candidate whose base and bonuses add up to more than 1, and
\* one whose required secondary peak is missing
C1_Witness ==
    /\ Matched
    /\ \E slot \in CandidateSlots :
         LET c == CandidateAt(slot)
         IN  /\ ~ RequiredUnmatched(c)
             /\ c.scoring.baseConfidence + c.scoring.shapeBonus
                  + c.scoring.intensityBonus + c.scoring.secondaryBonus > 10000
             /\ c.confidence = 10000
    /\ \E slot \in CandidateSlots : RequiredUnmatched(CandidateAt(slot))

\* the subtypes that pass for the peak at (1-based) position i, stated from
\* the gate and the shape bands
GateExpected(pos, range) ==
    /\ 20 * range[1] - (range[2] - range[1]) <= 20 * pos
    /\ 20 * pos <= 20 * range[2] + (range[2] - range[1])

ShapeFailExpected(fwhm, shape) ==
    /\ shape \in DOMAIN shapeSpecs
    /\ ~ (1000 * shapeSpecs[shape][1] <= fwhm /\ fwhm <= 1000 * shapeSpecs[shape][2])
    /\ \/ 10 * fwhm < 7 * 1000 * shapeSpecs[shape][1]
       \/ 2 * fwhm > 3 * 1000 * shapeSpecs[shape][2]

PassingSlots(i) ==
    { slot \in SubtypeSlots :
        /\ GateExpected(peaks[i].position, primaryRangeOf(SubtypeAt(slot)))
        /\ ~ ShapeFailExpected(peaks[i].fwhm, primaryShapeOf(SubtypeAt(slot))) }

\* the candidates of peak i before the sort and the truncation
Collected(i) == collectCandidates(i - 1, peaks[i], rulesDb, peaks)

AnnotationsOf(i) ==
    { a \in 1..Len(annotations) : annotations[a].peakIndex = i - 1 }

\* C2: at most 5 candidates, by non-increasing confidence, ties in database
\* iteration order, and nothing left out that beats a returned candidate
C2_TopFiveSortedStable ==
    Matched =>
        \A a \in 1..Len(annotations) :
            LET cands == annotations[a].topFiveCandidates
                all == Collected(annotations[a].peakIndex + 1)
            IN  /\ Len(cands) <= 5
                /\ Len(cands) = IF Len(all) < 5 THEN Len(all) ELSE 5
                /\ \A i \in 1..Len(cands) : \E j \in 1..Len(all) : all[j] = cands[i]
                /\ \A i \in 1..(Len(cands) - 1) :
                     /\ cands[i].confidence >= cands[i + 1].confidence
                     /\ cands[i].confidence = cands[i + 1].confidence
                          => Rank(SlotOf(cands[i])) < Rank(SlotOf(cands[i + 1]))
                /\ \A j \in 1..Len(all) :
                     (\A i \in 1..Len(cands) : cands[i] # all[j])
                       => \A i \in 1..Len(cands) :
                            all[j].confidence <= cands[i].confidence

\* C2 witness: more than 5 passing candidates, with a tie among those returned
C2_Witness ==
    /\ Matched
    /\ \E a \in 1..Len(annotations) :
         LET cands == annotations[a].topFiveCandidates
         IN  /\ Len(Collected(annotations[a].peakIndex + 1)) > 5
             /\ Len(cands) = 5
             /\ \E i \in 1..4 : cands[i].confidence = cands[i + 1].confidence
             /\ cands[1].confidence > cands[5].confidence

\* C3: a subtype yields a candidate for a peak exactly when the position is in
\* [min - tol, max + tol], tol = (max - min) * 0.05, bounds included, and the
\* shape check does not fail
C3_CandidateIffGateAndShape ==
    Matched =>
        \A i \in 1..Len(peaks) :
            LET col == Collected(i)
                passing == PassingSlots(i)
            IN  /\ \A slot \in SubtypeSlots :
                     Cardinality({ j \in 1..Len(col) :
                                     /\ col[j].ruleKey = KeyOf(slot)
                                     /\ col[j].ruleSubtype = IdOf(slot) })
                       = IF slot \in passing THEN 1 ELSE 0
                /\ Len(col) = Cardinality(passing)
                /\ Cardinality(AnnotationsOf(i)) = IF passing = {} THEN 0 ELSE 1
                /\ \A a \in AnnotationsOf(i) :
                     Cardinality(passing) <= 5 =>
                         { SlotOf(annotations[a].topFiveCandidates[c]) :
                             c \in 1..annotations[a].numCandidates } = passing

\* C3 witness: candidates on both inclusive bounds of the gate, one of them
\* with an intensity outside its class and one with a required secondary
\* peak missing
C3_Witness ==
    /\ Matched
    /\ \E slot \in CandidateSlots :
         LET c == CandidateAt(slot)
             r == primaryRangeOf(SubtypeAt(SlotOf(c)))
         IN  /\ 20 * peaks[c.peakIndex + 1].position = 20 * r[1] - (r[2] - r[1])
             /\ c.scoring.intensityBonus = 0
             /\ ruleIntensityOf(SubtypeAt(SlotOf(c))) \in DOMAIN thresholds
    /\ \E slot \in CandidateSlots :
         LET c == CandidateAt(slot)
             r == primaryRangeOf(SubtypeAt(SlotOf(c)))
         IN  20 * peaks[c.peakIndex + 1].position = 20 * r[2] + (r[2] - r[1])
    /\ \E slot \in CandidateSlots : RequiredUnmatched(CandidateAt(slot))

\* the candidate the same peak would get from the candidate's subtype with
\* its k-th secondary spec not marked required
WithoutRequirement(cand, k) ==
    LET slot == SlotOf(cand)
        sub == SubtypeAt(slot)
        relaxed == [sub EXCEPT !.secondaryPeaks[k].required = FALSE]
    IN  buildCandidate(cand.peakIndex, peaks[cand.peakIndex + 1], KeyOf(slot),
                       rulesDb.vibrationModes[slot[1]], relaxed, peaks,
                       SeqMax([q \in 1..Len(peaks) |-> peaks[q].intensity]))

\* the k-th secondary spec of the candidate's subtype is required and no peak
\* satisfies it
UnmatchedRequiredSpec(cand, k) ==
    LET spec == SubtypeAt(SlotOf(cand)).secondaryPeaks[k]
        r == IF spec.wavenumber = <<>> THEN DefaultRange ELSE spec.wavenumber
    IN  /\ spec.required
        /\ \A q \in 1..Len(peaks) :
             ~ ( /\ 10 * r[1] - (r[2] - r[1]) <= 10 * peaks[q].position
                 /\ 10 * peaks[q].position <= 10 * r[2] + (r[2] - r[1])
                 /\ Abs(peaks[q].position - peaks[cand.peakIndex + 1].position)
                      <= 200000 )

RECURSIVE PeaksWithCandidates(_)
PeaksWithCandidates(i) ==
    IF i > Len(peaks) THEN <<>>
    ELSE (IF PassingSlots(i) = {} THEN <<>> ELSE <<i>>) \o PeaksWithCandidates(i + 1)

\* C6: one annotation per peak with a passing candidate, none for the others,
\* in peak order; peakIndex is the peak's index in the input list and
\* primaryMatch is the head of the candidate list
C6_OneAnnotationPerMatchedPeak ==
    Matched =>
        LET expected == PeaksWithCandidates(1)
        IN  /\ Len(annotations) = Len(expected)
            /\ \A a \in 1..Len(annotations) :
                 /\ annotations[a].peakIndex = expected[a] - 1
                 /\ annotations[a].peakPosition = peaks[expected[a]].position
                 /\ annotations[a].peakFwhm = peaks[expected[a]].fwhm
                 /\ annotations[a].numCandidates >= 1
                 /\ annotations[a].primaryMatch = annotations[a].topFiveCandidates[1]
                 /\ \A n \in 1..annotations[a].numCandidates :
                      /\ annotations[a].topFiveCandidates[n].peakIndex = expected[a] - 1
                      /\ annotations[a].primaryMatch.confidence
                           >= annotations[a].topFiveCandidates[n].confidence

\* C6 witness: the first peak has no passing candidate and the second has, so
\* the annotation at position 0 carries peakIndex 1; and a run with no
\* annotation at all for a non-empty peak list is covered by the first part
C6_Witness ==
    /\ Matched
    /\ Len(peaks) = 2
    /\ PassingSlots(1) = {}
    /\ Len(annotations) = 1
    /\ annotations[1].peakIndex = 1

TopGap(ann) ==
    ann.topFiveCandidates[1].confidence - ann.topFiveCandidates[2].confidence

\* C7 as claimed: isAmbiguous holds exactly when there are two candidates with
\* top1 - top2 <= 0.05, and exactly when detectAmbiguities with gapThreshold
\* 0.05 emits a record for the annotation
C7_InlineFlagIsGapAtMost005 ==
    (Detected /\ gapThreshold = 500) =>
        \A a \in 1..Len(annotations) :
            /\ annotations[a].isAmbiguous
                 <=> (annotations[a].numCandidates >= 2
                        /\ TopGap(annotations[a]) <= 500)
            /\ annotations[a].isAmbiguous
                 <=> \E r \in 1..Len(ambiguities) :
                        ambiguities[r].peakIndex = annotations[a].peakIndex

\* the annotations (positions) detectAmbiguities is to emit, in order
RECURSIVE ExpectedAmbiguous(_)
ExpectedAmbiguous(a) ==
    IF a > Len(annotations) THEN <<>>
    ELSE (IF /\ Len(annotations[a].topFiveCandidates) >= 2
             /\ TopGap(annotations[a]) <= gapThreshold
          THEN <<a>> ELSE <<>>) \o ExpectedAmbiguous(a + 1)

\* C8: detectAmbiguities emits, in annotation order, exactly the annotations
\* with two candidates and top1 - top2 <= gapThreshold; the gap it records is
\* never negative
C8_AmbiguitiesExactlyWithinGap ==
    Detected =>
        LET expected == ExpectedAmbiguous(1)
        IN  /\ Len(ambiguities) = Len(expected)
            /\ \A r \in 1..Len(ambiguities) :
                 LET ann == annotations[expected[r]]
                 IN  /\ ambiguities[r].peakIndex = ann.peakIndex
                     /\ ambiguities[r].confidenceGap = TopGap(ann)
                     /\ ambiguities[r].confidenceGap >= 0
                     /\ ambiguities[r].topConfidence = ann.topFiveCandidates[1].confidence
                     /\ ambiguities[r].secondConfidence
                          = ann.topFiveCandidates[2].confidence
                     /\ ambiguities[r].topCandidates = SubSeq(ann.topFiveCandidates, 1, 2)
                     /\ ambiguities[r].allCandidates = ann.topFiveCandidates

\* C8 witness: a record whose gap equals a positive threshold, next to an
\* annotation with two candidates that is left out and one with a single
\* candidate
C8_Witness ==
    /\ Detected
    /\ gapThreshold > 0
    /\ \E r \in 1..Len(ambiguities) : ambiguities[r].confidenceGap = gapThreshold
    /\ \E a \in 1..Len(annotations) :
         /\ annotations[a].numCandidates >= 2
         /\ TopGap(annotations[a]) > gapThreshold
    /\ Len(annotations) > Len(ambiguities)

\* ------------------------------------------------------------ csvParser.js: findPeaks
\* a null argument (prominence, distance)
Null == 0 - 1

\* thresholds (height, prominence) are kept in units one hundred times
\* finer than the signal, so that maxVal * 0.05 and maxAbs * 0.01 are exact
Scale == 100

ProminenceWindow == 50           \* samples scanned on each side of a maximum
AutoProminencePercent == 5       \* prominence = maxVal * 0.05
AutoDistanceDivisor == 200       \* distance = floor(length / 200) || 1

\* element i of a JavaScript array (indices from 0)
At(s, i) == s[i + 1]

\* Math.max(...data) of an empty array is -Infinity
MinusInfinity == 0 - 10 * 1000 * 1000 * 1000

autoProminence(data) ==
    IF Len(data) = 0 THEN MinusInfinity
    ELSE SeqMax(data) * ((AutoProminencePercent * Scale) \div 100)

autoDistance(data) ==
    LET d == Len(data) \div AutoDistanceDivisor
    IN  IF d = 0 THEN 1 ELSE d

\* mutant: plateaus and ties accepted as maxima
isLocalMaximum_NotStrict(data, i) ==
    At(data, i) >= At(data, i - 1) /\ At(data, i) >= At(data, i + 1)

isLocalMaximum(data, i) ==
    At(data, i) > At(data, i - 1) /\ At(data, i) > At(data, i + 1)

\* for (j = from; j < to; j++) acc = Math.min(acc, data[j])
RECURSIVE minOver(_, _, _, _)
minOver(data, from, to, acc) ==
    IF from >= to THEN acc
    ELSE minOver(data, from + 1, to, Min(acc, At(data, from)))

minLeft(data, i) ==
    minOver(data, Max(0, i - ProminenceWindow), i, At(data, i))

minRight(data, i) ==
    minOver(data, i + 1, Min(Len(data), i + ProminenceWindow), At(data, i))

peakProminence(data, i) ==
    Min(At(data, i) - minLeft(data, i), At(data, i) - minRight(data, i))

\* the three nested tests of the local-maxima loop
qualifies(data, i, height, prominence) ==
    /\ isLocalMaximum(data, i)
    /\ Scale * At(data, i) >= height
    /\ Scale * peakProminence(data, i) >= prominence

\* for (i = 1; i < data.length - 1; i++)
localMaxima(data, i, height, prominence) ==
    SelectSeq([k \in 1..Max(0, Len(data) - 1 - i) |-> i + k - 1],
              LAMBDA j : qualifies(data, j, height, prominence))

\* mutant: a candidate is compared with every earlier candidate, kept or not
RECURSIVE distanceFilter_AgainstAll(_, _, _, _)
distanceFilter_AgainstAll(candidates, k, filtered, distance) ==
    IF k > Len(candidates) THEN filtered
    ELSE LET keep == \A m \in 1..(k - 1) :
                        ~(Abs(candidates[k] - candidates[m]) < distance)
         IN  distanceFilter_AgainstAll(candidates, k + 1,
                                       IF keep THEN Append(filtered, candidates[k])
                                       ELSE filtered,
                                       distance)

\* the distance criterion: a candidate closer than `distance` to a peak
\* already kept is dropped
RECURSIVE distanceFilter(_, _, _, _)
distanceFilter(candidates, k, filtered, distance) ==
    IF k > Len(candidates) THEN filtered
    ELSE LET keep == \A m \in 1..Len(filtered) :
                        ~(Abs(candidates[k] - filtered[m]) < distance)
         IN  distanceFilter(candidates, k + 1,
                            IF keep THEN Append(filtered, candidates[k])
                            ELSE filtered,
                            distance)

\* for (i = peakIdx - 1; i >= 0; i--) if (data[i] < halfHeight) ...
RECURSIVE leftEdge(_, _, _)
leftEdge(data, i, peakIdx) ==
    IF i < 0 THEN peakIdx
    ELSE IF 2 * At(data, i) < At(data, peakIdx) THEN i
    ELSE leftEdge(data, i - 1, peakIdx)

\* for (i = peakIdx + 1; i < data.length; i++) if (data[i] < halfHeight) ...
RECURSIVE rightEdge(_, _, _)
rightEdge(data, i, peakIdx) ==
    IF i >= Len(data) THEN peakIdx
    ELSE IF 2 * At(data, i) < At(data, peakIdx) THEN i
    ELSE rightEdge(data, i + 1, peakIdx)

peakWidth(data, peakIdx) ==
    rightEdge(data, peakIdx + 1, peakIdx) - leftEdge(data, peakIdx - 1, peakIdx)

findPeaks(data, height, prominence, distance) ==
    LET prom == IF prominence = Null THEN autoProminence(data) ELSE prominence
        dist == IF distance = Null THEN autoDistance(data) ELSE distance
        filtered == distanceFilter(localMaxima(data, 1, height, prom), 1, <<>>, dist)
    IN  [ peaks |-> filtered,
          properties |->
            [ peak_heights |-> [k \in 1..Len(filtered) |-> At(data, filtered[k])],
              width |-> [k \in 1..Len(filtered) |-> peakWidth(data, filtered[k])],
              prominences |-> [k \in 1..Len(filtered) |-> prom] ] ]

\* ------------------------------------------------------------ csvParser.js: detectPeaks
MinTransmittance == 1            \* 0.1 percent, the lower clip
MaxTransmittance == 1000         \* 100 percent, the upper clip

\* Math.log10(100.0 / t_clipped) in 0.00001, for the clipped transmittances
\* (0.1 percent) that the inputs below produce
log10of100over ==
    (1 :> 300000) @@ (100 :> 100000) @@ (250 :> 60206) @@ (500 :> 30103)
    @@ (1000 :> 0)

transmittanceToAbsorbance(transmittance) ==
    [ k \in 1..Len(transmittance) |->
        LET t_clipped == Max(MinTransmittance, Min(transmittance[k], MaxTransmittance))
        IN  log10of100over[t_clipped] ]

\* nearest integer to num / den for either sign of num (den > 0)
RoundDivSigned(num, den) ==
    IF num < 0 THEN 0 - RoundDiv(0 - num, den) ELSE RoundDiv(num, den)

\* gaussianWeights(size), normalised, in 0.001
gaussianWeights ==
    (1 :> <<1000>>) @@ (2 :> <<119, 881>>) @@ (3 :> <<78, 461, 461>>)
    @@ (4 :> <<58, 258, 426, 258>>) @@ (5 :> <<46, 165, 312, 312, 165>>)

\* the inner loop of fitPolynomial: <<num, denom>> after the weights i..
RECURSIVE weightedSums(_, _, _, _)
weightedSums(data, idx, weights, i) ==
    IF i >= Len(weights) THEN <<0, 0>>
    ELSE LET dataIdx == idx - (Len(weights) \div 2) + i
             rest == weightedSums(data, idx, weights, i + 1)
         IN  IF dataIdx >= 0 /\ dataIdx < Len(data)
             THEN <<At(data, dataIdx) * At(weights, i) + rest[1],
                    At(weights, i) + rest[2]>>
             ELSE rest

fitPolynomial(data, degree) ==
    LET weights == gaussianWeights[degree + 1]
    IN  [ k \in 1..Len(data) |->
            LET sums == weightedSums(data, k - 1, weights, 0)
            IN  IF sums[2] > 0 THEN RoundDivSigned(sums[1], sums[2]) ELSE data[k] ]

\* mutant: the window is not made odd again after it was raised
effectiveWindowLength_RaisedOnly(windowLength, polyorder) ==
    LET odd1 == IF windowLength % 2 = 0 THEN windowLength + 1 ELSE windowLength
    IN  IF odd1 < polyorder + 1 THEN polyorder + 1 ELSE odd1

\* the window length after the three adjustments
effectiveWindowLength(windowLength, polyorder) ==
    LET odd1 == IF windowLength % 2 = 0 THEN windowLength + 1 ELSE windowLength
        enough == IF odd1 < polyorder + 1 THEN polyorder + 1 ELSE odd1
    IN  IF enough % 2 = 0 THEN enough + 1 ELSE enough

\* data.slice(start, end)
sliceOf(data, start, end) == SubSeq(data, start + 1, end)

savitzkyGolayFilter(data, windowLength, polyorder) ==
    LET w == effectiveWindowLength(windowLength, polyorder)
        half == w \div 2
    IN  IF Len(data) < w THEN data
        ELSE [ k \in 1..Len(data) |->
                 LET i == k - 1
                     start == Max(0, i - half)
                     end == Min(Len(data), i + half + 1)
                     window == sliceOf(data, start, end)
                     fitted == fitPolynomial(window, polyorder)
                 IN  At(fitted, Len(window) \div 2) ]

removeLinearBaseline(data) ==
    LET n == Len(data)
    IN  IF n < 2 THEN data
        ELSE [ k \in 1..n |->
                 \* y - (start + (end - start) * (i / (n - 1)))
                 Max(0, RoundDivSigned((data[k] - data[1]) * (n - 1)
                                         - (data[n] - data[1]) * (k - 1),
                                       n - 1)) ]

RECURSIVE SeqSum(_)
SeqSum(s) == IF Len(s) = 0 THEN 0 ELSE s[1] + SeqSum(Tail(s))

\* avgSpacing * (wavenumber.length - 1)
totalSpacing(wavenumber) ==
    SeqSum([k \in 1..(Len(wavenumber) - 1) |-> Abs(wavenumber[k + 1] - wavenumber[k])])

\* FWHM in 0.001 cm-1 as the fraction <<numerator, denominator>>
calculateFWHMWavenumber(widthsInPoints, wavenumber) ==
    [ k \in 1..Len(widthsInPoints) |->
        <<widthsInPoints[k] * totalSpacing(wavenumber), Len(wavenumber) - 1>> ]

RECURSIVE insertAscending(_, _)
insertAscending(sorted, v) ==
    IF Len(sorted) = 0 THEN <<v>>
    ELSE IF v < sorted[1] THEN <<v>> \o sorted
    ELSE <<sorted[1]>> \o insertAscending(Tail(sorted), v)

RECURSIVE sortAscending(_)
sortAscending(s) ==
    IF Len(s) = 0 THEN <<>>
    ELSE insertAscending(sortAscending(SubSeq(s, 1, Len(s) - 1)), s[Len(s)])

\* floor of the square root
Isqrt(x) == CHOOSE r \in 0..x : r * r <= x /\ (r + 1) * (r + 1) > x

\* SNR in 0.01: the noise is the deviation of the lowest tenth of the samples;
\* an empty tenth gives NaN and a zero deviation gives 0, both replaced by 1
calculateSNR(peakHeights, data) ==
    LET sorted == sortAscending(data)
        lowIntensityRegion == sliceOf(sorted, 0, Len(sorted) \div 10)
        k == Len(lowIntensityRegion)
        \* the deviation does not change when the lowest value is subtracted
        above == [j \in 1..k |-> lowIntensityRegion[j] - lowIntensityRegion[1]]
        sum == SeqSum(above)
        squares == SeqSum([j \in 1..k |-> above[j] * above[j]])
        deviation == IF k = 0 THEN 0 ELSE Isqrt(k * squares - sum * sum)
    IN  [ j \in 1..Len(peakHeights) |->
            IF deviation = 0
            THEN toFixed(peakHeights[j], 1000, 1)
            ELSE toFixed(1000 * k * peakHeights[j], 10 * deviation, 1) ]

\* wn.reverse()
reverse(s) == [k \in 1..Len(s) |-> s[Len(s) + 1 - k]]

\* mutant: the peak list sorted by ascending position
RECURSIVE insertByPosition_Ascending(_, _)
insertByPosition_Ascending(sorted, peak) ==
    IF Len(sorted) = 0 THEN <<peak>>
    ELSE IF sorted[1].position <= peak.position
    THEN <<sorted[1]>> \o insertByPosition_Ascending(Tail(sorted), peak)
    ELSE <<peak>> \o sorted

\* peakList.sort((a, b) => b.position - a.position), a stable sort
RECURSIVE insertByPosition(_, _)
insertByPosition(sorted, peak) ==
    IF Len(sorted) = 0 THEN <<peak>>
    ELSE IF sorted[1].position >= peak.position
    THEN <<sorted[1]>> \o insertByPosition(Tail(sorted), peak)
    ELSE <<peak>> \o sorted

RECURSIVE sortByPosition(_)
sortByPosition(s) ==
    IF Len(s) = 0 THEN <<>>
    ELSE insertByPosition(sortByPosition(SubSeq(s, 1, Len(s) - 1)), s[Len(s)])

\* parseFloat(wn[peakIdx].toFixed(2))
roundPosition(wn) == toFixed(wn, 10, 10)

DefaultSmoothWindowLength == 11
DefaultSmoothPolyorder == 3
DefaultMinHeight == 50000        \* 0.005
DefaultProminencePercent == 5
DefaultDistancePercent == 2
HeightPercent == 1               \* height = max(minHeight, maxAbs * 0.01)

\* Arrays are objects: `objects` maps the name of each array object to its
\* elements, and a variable of the code holds the name of the object it
\* refers to.
\* the spread without the copy: the variable refers to the source array itself
spread_SameArray(objects, source, target) == [ref |-> source, objects |-> objects]

\* [...source]: a new array object, `target`, holding the elements of source
spread(objects, source, target) == [ref |-> target, objects |-> [objects EXCEPT ![target] = objects[source]]]

\* array.reverse() reverses the array object in place
reverseInPlace(objects, ref) == [objects EXCEPT ![ref] = reverse(@)]

\* the ordering step: the array objects after it, and what wn and tm refer to
ordering(wavenumber, transmittance) ==
    LET caller == [ wavenumber |-> wavenumber, transmittance |-> transmittance,
                    wnCopy |-> <<>>, tmCopy |-> <<>> ]
        first == spread(caller, "wavenumber", "wnCopy")
        second == spread(first.objects, "transmittance", "tmCopy")
        wn == first.ref
        tm == second.ref
        copied == second.objects
    IN  [ wn |-> wn, tm |-> tm,
          objects |-> IF copied[wn][1] > copied[wn][Len(copied[wn])]
                      THEN reverseInPlace(reverseInPlace(copied, wn), tm)
                      ELSE copied ]

\* wn, tm after the ordering step
normalised(wavenumber, transmittance) ==
    LET step == ordering(wavenumber, transmittance)
    IN  [wn |-> step.objects[step.wn], tm |-> step.objects[step.tm]]

\* the absorbance handed to findPeaks
processed(tm, options) ==
    LET smoothed == savitzkyGolayFilter(transmittanceToAbsorbance(tm),
                                        options.smoothWindowLength,
                                        options.smoothPolyorder)
    IN  IF options.baselineMethod = "linear"
        THEN removeLinearBaseline(smoothed)
        ELSE smoothed

detectPeaks(wavenumber, transmittance, options) ==
    LET ordered == normalised(wavenumber, transmittance)
        wn == ordered.wn
        absorbance == processed(ordered.tm, options)
        maxAbs == SeqMax(absorbance)
        height == Max(options.minHeight, maxAbs * ((HeightPercent * Scale) \div 100))
        prominence == maxAbs * ((options.prominencePercent * Scale) \div 100)
        distance == Max(1, (Len(wn) * options.distancePercent) \div 100)
        result == findPeaks(absorbance, height, prominence, distance)
        properties == result.properties
        fwhmWavenumber == calculateFWHMWavenumber(properties.width, wn)
        snr == calculateSNR(properties.peak_heights, absorbance)
    IN  sortByPosition(
          [ i \in 1..Len(result.peaks) |->
              [ position |-> roundPosition(At(wn, result.peaks[i])),
                intensity |-> toFixed(At(absorbance, result.peaks[i]), 10, 10),
                fwhm |-> toFixed(fwhmWavenumber[i][1], 10 * fwhmWavenumber[i][2], 10),
                height |-> toFixed(properties.peak_heights[i], 10, 10),
                prominence |-> toFixed(properties.prominences[i], 10 * Scale, 10),
                snr |-> snr[i],
                index |-> result.peaks[i] ] ])

\* ------------------------------------------------------------ detector inputs
MaxLen == 7                      \* samples of a findPeaks signal
MaxSamples == 5                  \* samples of a detectPeaks spectrum

DefaultHeight == 100000          \* 0.01, the default of findPeaks' height

Levels == {0, 40000, 80000}

Signals == UNION { [1..n -> Levels] : n \in 0..MaxLen }

Heights == {DefaultHeight, 40000 * Scale}
Prominences == {Null, 0, 40000 * Scale}
Distances == {Null, 1, 2, 3}

SignalInputs ==
    [ data : Signals, height : Heights, prominence : Prominences,
      distance : Distances ]

\* an axis of n samples: evenly spaced ascending, the same descending, or
\* out of order (the second and the last sample of the ascending axis swapped)
wavenumberAxis(start, step, n, order) ==
    LET ascending == [k \in 1..n |-> start + (k - 1) * step]
    IN  IF order = "descending" THEN reverse(ascending)
        ELSE IF order = "unsorted" /\ n >= 3
        THEN [ascending EXCEPT ![2] = ascending[n], ![n] = ascending[2]]
        ELSE ascending

AxisStarts == {999993, 999996, 1700000}
AxisSteps == {1, 10, 2000}
AxisOrders == {"ascending", "descending", "unsorted"}

\* percent transmittances below, inside and above the clip range
Transmittances == {0, 500, 1200}

DetectOptions ==
    [ smoothWindowLength : {3, DefaultSmoothWindowLength},
      smoothPolyorder : {2, DefaultSmoothPolyorder},
      baselineMethod : {"linear", "none"},
      minHeight : {DefaultMinHeight},
      prominencePercent : {DefaultProminencePercent},
      distancePercent : {DefaultDistancePercent} ]

SpectrumInputs ==
    UNION { [ wavenumber : { wavenumberAxis(a, d, n, r) :
                               a \in AxisStarts, d \in AxisSteps, r \in AxisOrders },
              transmittance : [1..n -> Transmittances],
              options : DetectOptions ] :
            n \in 1..MaxSamples }

\* ------------------------------------------------------------ specification: findPeaks
InitFindPeaks ==
    /\ signal \in SignalInputs
    /\ found = <<>>
    /\ spectrum = <<>>
    /\ peakList = <<>>
    /\ peaks = <<>>
    /\ rulesDb = [vibrationModes |-> <<>>]
    /\ annotations = <<>>
    /\ ambiguities = <<>>
    /\ gapThreshold = Undefined
    /\ summary = [totalPeaks |-> 0, annotatedPeaks |-> 0, ambiguousPeaks |-> 0]
    /\ args = <<>>
    /\ returned = <<>>
    /\ file = <<>>
    /\ store = InitialStore
    /\ pc = "idle"

FindPeaks ==
    /\ pc = "idle"
    /\ found' = findPeaks(signal.data, signal.height, signal.prominence,
                          signal.distance)
    /\ pc' = "peaksFound"
    /\ UNCHANGED <<signal, spectrum, peakList>>
    /\ UNCHANGED matcherVars
    /\ UNCHANGED functionVars
    /\ UNCHANGED appVars

NextFindPeaks == FindPeaks

SpecFindPeaks == InitFindPeaks /\ [][NextFindPeaks]_vars

\* ------------------------------------------------------------ specification: detectPeaks
InitDetect ==
    /\ spectrum \in SpectrumInputs
    /\ peakList = <<>>
    /\ signal = <<>>
    /\ found = <<>>
    /\ peaks = <<>>
    /\ rulesDb = [vibrationModes |-> <<>>]
    /\ annotations = <<>>
    /\ ambiguities = <<>>
    /\ gapThreshold = Undefined
    /\ summary = [totalPeaks |-> 0, annotatedPeaks |-> 0, ambiguousPeaks |-> 0]
    /\ args = <<>>
    /\ returned = <<>>
    /\ file = <<>>
    /\ store = InitialStore
    /\ pc = "idle"

DetectPeaks ==
    /\ pc = "idle"
    /\ DOMAIN spectrum # {}                 \* a spectrum is supplied
    /\ peakList' = detectPeaks(spectrum.wavenumber, spectrum.transmittance,
                               spectrum.options)
    /\ LET after == ordering(spectrum.wavenumber, spectrum.transmittance).objects
       IN  spectrum' = [spectrum EXCEPT !.wavenumber = after.wavenumber,
                                        !.transmittance = after.transmittance]
    /\ pc' = "peaksDetected"
    /\ UNCHANGED <<signal, found>>
    /\ UNCHANGED matcherVars
    /\ UNCHANGED functionVars
    /\ UNCHANGED appVars

NextDetect == DetectPeaks

SpecDetect == InitDetect /\ [][NextDetect]_vars

\* ------------------------------------------------------------ claims: detector
PeaksDetected == pc = "peaksDetected"
PeaksFound == pc = "peaksFound"

\* the input wavenumbers
InputWavenumbers ==
    {spectrum.wavenumber[j] : j \in 1..Len(spectrum.wavenumber)}

LowestWavenumber ==
    CHOOSE m \in InputWavenumbers : \A w \in InputWavenumbers : m <= w
HighestWavenumber ==
    CHOOSE m \in InputWavenumbers : \A w \in InputWavenumbers : m >= w

\* the input sample that the peak index refers to, on the ascending axis
SampleAt(index) ==
    LET wn == spectrum.wavenumber
    IN  IF wn[1] > wn[Len(wn)] THEN wn[Len(wn) - index] ELSE wn[index + 1]

NonIncreasingPositions ==
    \A k \in 1..(Len(peakList) - 1) :
        peakList[k].position >= peakList[k + 1].position

\* the input wavenumbers run strictly one way and consecutive ones are at
\* least 0.01 cm-1 apart, as cleanSpectrum leaves them
SpacedByHundredth ==
    LET wn == spectrum.wavenumber
    IN  \/ \A j \in 1..(Len(wn) - 1) : wn[j + 1] - wn[j] >= 10
        \/ \A j \in 1..(Len(wn) - 1) : wn[j] - wn[j + 1] >= 10

\* C9 (as claimed): the peak list is ordered by non-increasing position and
\* every position is the wavenumber of an input sample, hence lies between
\* the lowest and the highest input wavenumber.
C9_PositionsAreInputSamples ==
    PeaksDetected =>
        /\ NonIncreasingPositions
        /\ \A k \in 1..Len(peakList) :
              /\ peakList[k].position \in InputWavenumbers
              /\ LowestWavenumber <= peakList[k].position
              /\ peakList[k].position <= HighestWavenumber

\* C9 (amended): the peak list is ordered by non-increasing position; every
\* position is the input wavenumber at the peak's index rounded to two
\* decimals (a multiple of 0.01 within 0.005 of that sample); it lies between
\* the lowest and highest input wavenumber when the input wavenumbers are
\* strictly monotonic with consecutive ones at least 0.01 cm-1 apart.
C9_PositionsAreRoundedSamples ==
    PeaksDetected =>
        /\ NonIncreasingPositions
        /\ \A k \in 1..Len(peakList) :
              LET p == peakList[k].position
                  w == SampleAt(peakList[k].index)
              IN  /\ p % 10 = 0
                  /\ p - 5 <= w
                  /\ w < p + 5
                  /\ SpacedByHundredth =>
                        LowestWavenumber <= p /\ p <= HighestWavenumber

\* two peaks returned, the rounding moved one position off its sample and
\* above the highest input wavenumber
C9_Witness ==
    /\ PeaksDetected
    /\ Len(peakList) >= 2
    /\ peakList[1].position > peakList[2].position
    /\ peakList[1].position > HighestWavenumber
    /\ peakList[2].position \notin InputWavenumbers

\* the prominence of index i, from the definition: the smaller drop to the
\* lowest sample among those scanned on each side
ScannedLeft(i) == {j \in 0..(Len(signal.data) - 1) : i - ProminenceWindow <= j /\ j < i}
ScannedRight(i) == {j \in 0..(Len(signal.data) - 1) : i < j /\ j < i + ProminenceWindow}

LowestOf(indices, i) ==
    LET values == {At(signal.data, j) : j \in indices \cup {i}}
    IN  CHOOSE m \in values : \A v \in values : m <= v

ComputedProminence(i) ==
    LET here == At(signal.data, i)
        left == here - LowestOf(ScannedLeft(i), i)
        right == here - LowestOf(ScannedRight(i), i)
    IN  IF left <= right THEN left ELSE right

HighestSample ==
    LET values == {signal.data[j] : j \in 1..Len(signal.data)}
    IN  CHOOSE m \in values : \A v \in values : m >= v

ProminenceThreshold ==
    IF signal.prominence = Null
    THEN HighestSample * AutoProminencePercent
    ELSE signal.prominence

FlatSignal ==
    \A j, k \in 1..Len(signal.data) : signal.data[j] = signal.data[k]

\* C10: every index i returned by findPeaks satisfies 0 < i < len-1,
\* signal[i] > signal[i-1], signal[i] > signal[i+1], signal[i] >= height and
\* computed prominence >= the prominence threshold; a flat signal yields an
\* empty result (no peaks, no heights, no widths, no prominences).
C10_ReturnedIndicesQualify ==
    PeaksFound =>
        /\ \A k \in 1..Len(found.peaks) :
              LET i == found.peaks[k]
              IN  /\ 0 < i
                  /\ i < Len(signal.data) - 1
                  /\ At(signal.data, i) > At(signal.data, i - 1)
                  /\ At(signal.data, i) > At(signal.data, i + 1)
                  /\ Scale * At(signal.data, i) >= signal.height
                  /\ Scale * ComputedProminence(i) >= ProminenceThreshold
        /\ FlatSignal =>
              /\ found.peaks = <<>>
              /\ found.properties.peak_heights = <<>>
              /\ found.properties.width = <<>>
              /\ found.properties.prominences = <<>>

\* a peak was returned whose height and prominence sit exactly on the
\* thresholds, next to a plateau that was not returned
C10_Witness ==
    /\ PeaksFound
    /\ \E k \in 1..Len(found.peaks) :
          LET i == found.peaks[k]
          IN  /\ Scale * At(signal.data, i) = signal.height
              /\ Scale * ComputedProminence(i) = ProminenceThreshold
    /\ \E j \in 1..(Len(signal.data) - 1) :
          /\ signal.data[j] = signal.data[j + 1]
          /\ signal.data[j] > 0

\* the indices that pass the maximum, height and prominence tests
QualifyingIndices ==
    { i \in 1..(Len(signal.data) - 2) :
        /\ At(signal.data, i) > At(signal.data, i - 1)
        /\ At(signal.data, i) > At(signal.data, i + 1)
        /\ Scale * At(signal.data, i) >= signal.height
        /\ Scale * ComputedProminence(i) >= ProminenceThreshold }

KeptIndices == {found.peaks[k] : k \in 1..Len(found.peaks)}

DistanceUsed ==
    IF signal.distance # Null THEN signal.distance
    ELSE IF Len(signal.data) < AutoDistanceDivisor THEN 1
    ELSE Len(signal.data) \div AutoDistanceDivisor

\* C11: the distance filter scans the qualifying candidates in ascending
\* index order and keeps a candidate exactly when its index is at least
\* `distance` away from every candidate kept before it; so any two returned
\* peaks are at least `distance` apart, the lowest-index candidate is kept,
\* and every discarded candidate is closer than `distance` to a kept
\* candidate of lower index.
C11_GreedyDistanceFilter ==
    PeaksFound =>
        /\ KeptIndices \subseteq QualifyingIndices
        /\ \A k \in 1..(Len(found.peaks) - 1) : found.peaks[k] < found.peaks[k + 1]
        /\ \A c \in QualifyingIndices :
              c \in KeptIndices <=>
                 \A e \in KeptIndices : e < c => c - e >= DistanceUsed
        /\ \A a, b \in KeptIndices : a < b => b - a >= DistanceUsed
        /\ \A c \in QualifyingIndices :
              (\A e \in QualifyingIndices : c <= e) => c \in KeptIndices
        /\ \A c \in QualifyingIndices \ KeptIndices :
              \E e \in KeptIndices : e < c /\ c - e < DistanceUsed

\* three candidates: the first kept, the second discarded for being too
\* close to it, the third kept although it is close to the discarded one
C11_Witness ==
    /\ PeaksFound
    /\ QualifyingIndices = {1, 3, 5}
    /\ found.peaks = <<1, 5>>
    /\ DistanceUsed = 3

\* ------------------------------------------------------------ double arithmetic
\* removeLinearBaseline called on its own is evaluated in the arithmetic of
\* JavaScript numbers (IEEE 754 binary64, round to nearest, ties to even).
\* A magnitude is a sequence of 15-bit limbs, lowest limb first, without
\* leading zero limbs; a number is [neg, mag, exp] with value
\* (+/-) mag * 2^exp.
MantissaBits == 53
LimbBits == 15
Limb == 2 ^ LimbBits

LimbAt(a, k) == IF k <= Len(a) THEN a[k] ELSE 0

RECURSIVE trim(_)
trim(a) ==
    IF Len(a) = 0 THEN a
    ELSE IF a[Len(a)] # 0 THEN a
    ELSE trim(SubSeq(a, 1, Len(a) - 1))

RECURSIVE natLimbs(_)
natLimbs(n) == IF n = 0 THEN <<>> ELSE <<n % Limb>> \o natLimbs(n \div Limb)

RECURSIVE addFrom(_, _, _, _)
addFrom(a, b, k, carry) ==
    IF k > Len(a) /\ k > Len(b)
    THEN (IF carry > 0 THEN <<carry>> ELSE <<>>)
    ELSE LET sum == LimbAt(a, k) + LimbAt(b, k) + carry
         IN  <<sum % Limb>> \o addFrom(a, b, k + 1, sum \div Limb)

addLimbs(a, b) == trim(addFrom(a, b, 1, 0))

\* a - b for a >= b
RECURSIVE subFrom(_, _, _, _)
subFrom(a, b, k, borrow) ==
    IF k > Len(a) THEN <<>>
    ELSE LET diff == LimbAt(a, k) - LimbAt(b, k) - borrow
         IN  <<diff % Limb>> \o subFrom(a, b, k + 1, IF diff < 0 THEN 1 ELSE 0)

subLimbs(a, b) == trim(subFrom(a, b, 1, 0))

lessLimbs(a, b) ==
    \/ Len(a) < Len(b)
    \/ /\ Len(a) = Len(b)
       /\ \E k \in 1..Len(a) :
             /\ a[k] < b[k]
             /\ \A j \in (k + 1)..Len(a) : a[j] = b[j]

\* a * d for 0 <= d < Limb
RECURSIVE timesFrom(_, _, _, _)
timesFrom(a, d, k, carry) ==
    IF k > Len(a) THEN (IF carry > 0 THEN <<carry>> ELSE <<>>)
    ELSE LET product == a[k] * d + carry
         IN  <<product % Limb>> \o timesFrom(a, d, k + 1, product \div Limb)

timesSmall(a, d) == trim(timesFrom(a, d, 1, 0))

RECURSIVE mulLimbs(_, _)
mulLimbs(a, b) ==
    IF Len(b) = 0 THEN <<>>
    ELSE LET rest == mulLimbs(a, Tail(b))
         IN  addLimbs(timesSmall(a, b[1]),
                      IF Len(rest) = 0 THEN rest ELSE <<0>> \o rest)

\* number of bits of 0 <= n < Limb
RECURSIVE bitsOf(_)
bitsOf(n) == IF n = 0 THEN 0 ELSE 1 + bitsOf(n \div 2)

bitLength(a) ==
    IF Len(a) = 0 THEN 0 ELSE LimbBits * (Len(a) - 1) + bitsOf(a[Len(a)])

\* bit number pos (from 0) of a
bitAt(a, pos) ==
    (LimbAt(a, pos \div LimbBits + 1) \div (2 ^ (pos % LimbBits))) % 2

\* whether a bit below bit number pos is set
anyBitBelow(a, pos) ==
    \/ \E k \in 1..Min(Len(a), pos \div LimbBits) : a[k] # 0
    \/ LimbAt(a, pos \div LimbBits + 1) % (2 ^ (pos % LimbBits)) # 0

\* a * 2^k
shiftLeft(a, k) ==
    IF Len(a) = 0 THEN a
    ELSE [j \in 1..(k \div LimbBits) |-> 0] \o timesSmall(a, 2 ^ (k % LimbBits))

\* floor(a / 2^k)
shiftRight(a, k) ==
    LET q == k \div LimbBits
        r == k % LimbBits
    IN  trim([ j \in 1..Max(0, Len(a) - q) |->
                 LimbAt(a, j + q) \div (2 ^ r)
                 + (LimbAt(a, j + q + 1) % (2 ^ r)) * (2 ^ (LimbBits - r)) ])

Zero == [neg |-> FALSE, mag |-> <<>>, exp |-> 0]

\* number of zero bits at the low end of a # 0
RECURSIVE trailingZeros(_, _)
trailingZeros(a, pos) ==
    IF bitAt(a, pos) = 1 THEN 0
    ELSE IF LimbAt(a, pos \div LimbBits + 1) = 0
    THEN LimbBits + trailingZeros(a, pos + LimbBits)
    ELSE 1 + trailingZeros(a, pos + 1)

\* the unique representation with an odd magnitude
normalise(x) ==
    IF Len(x.mag) = 0 THEN Zero
    ELSE LET z == trailingZeros(x.mag, 0)
         IN  [neg |-> x.neg, mag |-> shiftRight(x.mag, z), exp |-> x.exp + z]

\* the double nearest to (+/-) (mag + fraction) * 2^exp, where sticky says
\* whether the fraction in [0, 1) is not zero; ties go to the even mantissa
roundToDouble(neg, mag, exp, sticky) ==
    LET drop == bitLength(mag) - MantissaBits
    IN  IF drop <= 0 THEN normalise([neg |-> neg, mag |-> mag, exp |-> exp])
        ELSE LET kept == shiftRight(mag, drop)
                 half == bitAt(mag, drop - 1)
                 below == sticky \/ anyBitBelow(mag, drop - 1)
                 up == half = 1 /\ (below \/ kept[1] % 2 = 1)
             IN  normalise([ neg |-> neg,
                             mag |-> IF up THEN addLimbs(kept, <<1>>) ELSE kept,
                             exp |-> exp + drop ])

fromInt(n) ==
    normalise([neg |-> n < 0, mag |-> natLimbs(IF n < 0 THEN 0 - n ELSE n), exp |-> 0])

\* long division by 0 < m < Limb of the limbs `high` (highest first)
\* followed by `zeros` zero limbs: <<quotient, highest limb first; remainder>>
RECURSIVE divideLimbs(_, _, _, _)
divideLimbs(high, zeros, rem, m) ==
    IF Len(high) = 0 /\ zeros = 0 THEN <<<<>>, rem>>
    ELSE LET next == rem * Limb + (IF Len(high) > 0 THEN high[1] ELSE 0)
             rest == divideLimbs(IF Len(high) > 0 THEN Tail(high) ELSE high,
                                 IF Len(high) > 0 THEN zeros ELSE zeros - 1,
                                 next % m, m)
         IN  <<<<next \div m>> \o rest[1], rest[2]>>

\* highest limb first <-> lowest limb first
flip(a) == [k \in 1..Len(a) |-> a[Len(a) + 1 - k]]

\* i / m for integers 0 <= i, 0 < m < Limb
fdiv(i, m) ==
    LET extra == (MantissaBits + LimbBits) \div LimbBits + 1
        division == divideLimbs(flip(natLimbs(i)), extra, 0, m)
    IN  roundToDouble(FALSE, trim(flip(division[1])), 0 - extra * LimbBits,
                      division[2] # 0)

fmul(x, y) ==
    roundToDouble(x.neg # y.neg, mulLimbs(x.mag, y.mag), x.exp + y.exp, FALSE)

fadd(x, y) ==
    LET e == Min(x.exp, y.exp)
        a == shiftLeft(x.mag, x.exp - e)
        b == shiftLeft(y.mag, y.exp - e)
    IN  IF x.neg = y.neg THEN roundToDouble(x.neg, addLimbs(a, b), e, FALSE)
        ELSE IF lessLimbs(a, b) THEN roundToDouble(y.neg, subLimbs(b, a), e, FALSE)
        ELSE roundToDouble(x.neg, subLimbs(a, b), e, FALSE)

fsub(x, y) == fadd(x, [neg |-> ~y.neg, mag |-> y.mag, exp |-> y.exp])

\* Math.max(0, x)
maxWithZero(x) == IF x.neg THEN Zero ELSE x

\* removeLinearBaseline on samples that are integers, in double arithmetic
removeLinearBaselineDouble(data) ==
    LET n == Len(data)
    IN  IF n < 2 THEN [k \in 1..n |-> fromInt(data[k])]
        ELSE LET start == fromInt(data[1])
                 end == fromInt(data[n])
                 baseline == [ k \in 1..n |->
                                 fadd(start, fmul(fsub(end, start), fdiv(k - 1, n - 1))) ]
             IN  [ k \in 1..n |-> maxWithZero(fsub(fromInt(data[k]), baseline[k])) ]

\* ------------------------------------------------------------ specification: removeLinearBaseline
MaxSignalLen == 12               \* samples of a removeLinearBaseline signal

linearSignal(start, step, n) == [k \in 1..n |-> start + (k - 1) * step]

LineStarts == {0, 1, 60}
LineSteps == {0, 1, 5, 0 - 5}
Bumps == {0 - 2, 0, 3}

\* straight lines, and straight lines with one sample moved off the line
BaselineSignals ==
    UNION { { [linearSignal(a, d, n) EXCEPT ![j] = @ + b] :
                a \in LineStarts, d \in LineSteps, j \in 1..n, b \in Bumps }
            \cup {linearSignal(a, d, n) : a \in LineStarts, d \in LineSteps} :
            n \in 0..MaxSignalLen }

InitBaseline ==
    /\ args \in [data : BaselineSignals]
    /\ returned = <<>>
    /\ file = <<>>
    /\ store = InitialStore
    /\ signal = <<>>
    /\ found = <<>>
    /\ spectrum = <<>>
    /\ peakList = <<>>
    /\ peaks = <<>>
    /\ rulesDb = [vibrationModes |-> <<>>]
    /\ annotations = <<>>
    /\ ambiguities = <<>>
    /\ gapThreshold = Undefined
    /\ summary = [totalPeaks |-> 0, annotatedPeaks |-> 0, ambiguousPeaks |-> 0]
    /\ pc = "idle"

RemoveLinearBaseline ==
    /\ pc = "idle"
    /\ returned' = removeLinearBaselineDouble(args.data)
    /\ pc' = "baselineRemoved"
    /\ UNCHANGED args
    /\ UNCHANGED matcherVars
    /\ UNCHANGED detectorVars
    /\ UNCHANGED appVars

NextBaseline == RemoveLinearBaseline

SpecBaseline == InitBaseline /\ [][NextBaseline]_vars

\* ------------------------------------------------------------ claims: removeLinearBaseline
BaselineRemoved == pc = "baselineRemoved"

\* all samples on the straight line through the first and the last one
PerfectlyLinear(data) ==
    \A k \in 1..Len(data) :
        (data[k] - data[1]) * (Len(data) - 1) = (data[Len(data)] - data[1]) * (k - 1)

\* (signal[k] - line(k)) * (n - 1), an integer
TimesSpan(data, k) ==
    (data[k] - data[1]) * (Len(data) - 1) - (data[Len(data)] - data[1]) * (k - 1)

\* a double below 2^-40 in magnitude
Negligible(x) == Len(x.mag) = 0 \/ bitLength(x.mag) + x.exp <= 0 - 40

\* C12: removeLinearBaseline applied to a perfectly linear signal of at
\* least 2 samples returns an all-zero signal of the same length; in general
\* each output sample equals max(0, signal[i] - line(i)), line being the
\* straight line through the first and last samples (here: up to an error
\* below 2^-40); a signal of fewer than 2 samples is returned unchanged.
C12_LinearSignalGivesZeros ==
    BaselineRemoved =>
        LET data == args.data
            n == Len(data)
        IN  /\ Len(returned) = n
            /\ n < 2 => \A k \in 1..n : returned[k] = fromInt(data[k])
            /\ n >= 2 =>
                  \A k \in 1..n :
                      Negligible(fsub(fmul(returned[k], fromInt(n - 1)),
                                      fromInt(Max(0, TimesSpan(data, k)))))
            /\ (n >= 2 /\ PerfectlyLinear(data)) =>
                  \A k \in 1..n : returned[k] = Zero

\* ------------------------------------------------------------ specification: savitzkyGolayFilter
MaxSmoothLen == 5                \* samples of a savitzkyGolayFilter signal

WindowLengths == 0..7
Polyorders == 0..4

SmoothInputs ==
    [ data : UNION { [1..n -> Levels] : n \in 0..MaxSmoothLen },
      windowLength : WindowLengths,
      polyorder : Polyorders ]

InitSmooth ==
    /\ args \in SmoothInputs
    /\ returned = <<>>
    /\ file = <<>>
    /\ store = InitialStore
    /\ signal = <<>>
    /\ found = <<>>
    /\ spectrum = <<>>
    /\ peakList = <<>>
    /\ peaks = <<>>
    /\ rulesDb = [vibrationModes |-> <<>>]
    /\ annotations = <<>>
    /\ ambiguities = <<>>
    /\ gapThreshold = Undefined
    /\ summary = [totalPeaks |-> 0, annotatedPeaks |-> 0, ambiguousPeaks |-> 0]
    /\ pc = "idle"

SavitzkyGolayFilter ==
    /\ pc = "idle"
    /\ returned' = savitzkyGolayFilter(args.data, args.windowLength, args.polyorder)
    /\ pc' = "smoothed"
    /\ UNCHANGED args
    /\ UNCHANGED matcherVars
    /\ UNCHANGED detectorVars
    /\ UNCHANGED appVars

NextSmooth == SavitzkyGolayFilter

SpecSmooth == InitSmooth /\ [][NextSmooth]_vars

\* ------------------------------------------------------------ claims: savitzkyGolayFilter
Smoothed == pc = "smoothed"

WindowUsed == effectiveWindowLength(args.windowLength, args.polyorder)

\* C13: for every requested windowLength and polyorder the effective window
\* length is odd, at least polyorder + 1 and not smaller than the requested
\* length; an input with fewer samples than the effective window is returned
\* unchanged, and otherwise the output has the same length as the input.
C13_EffectiveWindow ==
    Smoothed =>
        /\ WindowUsed % 2 = 1
        /\ WindowUsed >= args.polyorder + 1
        /\ WindowUsed >= args.windowLength
        /\ Len(args.data) < WindowUsed => returned = args.data
        /\ Len(returned) = Len(args.data)

\* both adjustments applied (2 -> 3 -> 4 -> 5): a signal of 4 samples, long
\* enough for the requested window and for polyorder + 1, is returned
\* unchanged
C13_Witness ==
    /\ Smoothed
    /\ args.windowLength = 2
    /\ args.polyorder = 3
    /\ WindowUsed = 5
    /\ Len(args.data) = 4
    /\ returned = args.data
    /\ \E k \in 1..3 : args.data[k] # args.data[k + 1]

\* ------------------------------------------------------------ specification: the core operations
\* A caller holds either a spectrum or a peak list with a rule database, and
\* calls detectPeaks, matchAllPeaks, detectAmbiguities or annotatePeaks.
InitCore == Init \/ InitDetect

NextCore == DetectPeaks \/ MatchAllPeaks \/ DetectAmbiguities \/ AnnotatePeaks

SpecCore == InitCore /\ [][NextCore]_vars

\* ------------------------------------------------------------ claims: caller data
DescendingInput ==
    /\ DOMAIN spectrum # {}
    /\ Len(spectrum.wavenumber) >= 2
    /\ \A k \in 1..(Len(spectrum.wavenumber) - 1) :
          spectrum.wavenumber[k] > spectrum.wavenumber[k + 1]

\* C14: no core operation modifies data supplied by its caller: across a call
\* of detectPeaks, matchAllPeaks, detectAmbiguities or annotatePeaks the
\* wavenumber and transmittance arrays and the options, the peak list, the
\* rule database and (for detectAmbiguities) the annotations passed in keep
\* their values and order, also when the wavenumbers are descending.
C14_CallerDataUnchanged ==
    [][ /\ spectrum' = spectrum
        /\ peaks' = peaks
        /\ rulesDb' = rulesDb
        /\ pc = "matched" => annotations' = annotations ]_vars

\* detectPeaks has returned peaks for a spectrum given in descending order,
\* whose working copies it reversed
C14_Witness ==
    /\ PeaksDetected
    /\ DescendingInput
    /\ Len(peakList) >= 1
    /\ normalised(spectrum.wavenumber, spectrum.transmittance).wn
          = reverse(spectrum.wavenumber)

\* ------------------------------------------------------------ claims: malformed input
MinDataPoints == 10              \* validateSpectrum: at least 10 points
MinWavenumber == 100000          \* 100 cm-1
MaxWavenumber == 5000000         \* 5000 cm-1
MinPercent == 0
MaxPercent == 1000               \* 100 %

\* what validateSpectrum and the range checks of parseCSVText reject
Malformed(wavenumber, transmittance) ==
    \/ Len(wavenumber) # Len(transmittance)
    \/ Len(wavenumber) < MinDataPoints
    \/ \A k \in 1..Len(transmittance) : transmittance[k] = transmittance[1]
    \/ \E k \in 1..Len(wavenumber) :
          wavenumber[k] < MinWavenumber \/ wavenumber[k] > MaxWavenumber
    \/ \E k \in 1..Len(transmittance) :
          transmittance[k] < MinPercent \/ transmittance[k] > MaxPercent

\* C15: detectPeaks invoked with malformed or insufficient input (arrays of
\* different length, fewer than 10 samples, an all-constant signal or
\* out-of-range values) fails with InvalidInput and returns no peak list.
C15_MalformedInputFails ==
    (DOMAIN spectrum # {}
       /\ Malformed(spectrum.wavenumber, spectrum.transmittance))
    => ~PeaksDetected

\* ------------------------------------------------------------ parseCSVText, cleanSpectrum
\* A line of the CSV text, after the trim and the split into parts:
\*   "empty"   nothing but white space
\*   "header"  contains one of the header keywords
\*   "text"    two parts, one of which parseFloat reads as NaN
\*   "single"  one numeric part only
\*   "data"    two numeric parts: wavenumber (0.001 cm-1), transmittance (0.1 %)
line(kind, wavenumber, transmittance) == [kind |-> kind, wavenumber |-> wavenumber, transmittance |-> transmittance]

isHeaderLine(l) == l.kind \in {"header", "text"}

\* the row passes the checks of the parsing loop and is pushed
validRow(l) ==
    /\ l.kind = "data"
    /\ ~(l.wavenumber < MinWavenumber \/ l.wavenumber > MaxWavenumber)
    /\ ~(l.transmittance < MinPercent \/ l.transmittance > MaxPercent)

\* the message validateSpectrum throws, or "" when it returns
validateSpectrum(wavenumber, transmittance) ==
    IF Len(wavenumber) # Len(transmittance) THEN "length mismatch"
    ELSE IF Len(wavenumber) < MinDataPoints THEN "too few data points"
    ELSE IF \A k \in 1..Len(transmittance) : transmittance[k] = 0
    THEN "transmittance all 0"
    ELSE IF \A k \in 1..Len(transmittance) : transmittance[k] = MaxPercent
    THEN "transmittance all 100"
    ELSE ""

SeqMin(s) == CHOOSE x \in {s[k] : k \in 1..Len(s)} : \A k \in 1..Len(s) : x <= s[k]

\* a thrown error, and a returned spectrum
thrown(message) == [error |-> message, spectrum |-> null]
parsed(wavenumber, transmittance) ==
    [ error |-> "",
      spectrum |-> some([ wavenumber |-> wavenumber,
                          transmittance |-> transmittance,
                          dataPoints |-> Len(wavenumber),
                          wavenumberRange |-> <<SeqMin(wavenumber), SeqMax(wavenumber)>>,
                          transmittanceRange |-> <<SeqMin(transmittance), SeqMax(transmittance)>> ]) ]

\* with the default options: hasHeader, skipInvalidRows
parseCSVText(csvText) ==
    LET lines == SelectSeq(csvText, LAMBDA l : l.kind # "empty")
        dataLines == IF isHeaderLine(lines[1]) THEN Tail(lines) ELSE lines
        rows == SelectSeq(dataLines, validRow)
        wavenumber == [k \in 1..Len(rows) |-> rows[k].wavenumber]
        transmittance == [k \in 1..Len(rows) |-> rows[k].transmittance]
        invalid == validateSpectrum(wavenumber, transmittance)
    IN  IF Len(lines) < 2 THEN thrown("fewer than 2 lines")
        ELSE IF Len(rows) = 0 THEN thrown("no valid data row")
        ELSE IF invalid # "" THEN thrown(invalid)
        ELSE parsed(wavenumber, transmittance)

\* the promise of parseCSVFile: rejected with an error, or resolved
parseCSVFile(f) ==
    IF ~f.accepted THEN thrown("not a CSV file")
    ELSE IF ~f.readable THEN thrown("file reading failed")
    ELSE parseCSVText(f.text)

NearDuplicate == 10              \* 0.01 cm-1

\* pairs.sort((a, b) => a.wavenumber - b.wavenumber), a stable sort
RECURSIVE insertByWavenumber(_, _)
insertByWavenumber(sorted, pair) ==
    IF sorted = <<>> THEN <<pair>>
    ELSE IF sorted[Len(sorted)].wavenumber <= pair.wavenumber
    THEN Append(sorted, pair)
    ELSE Append(insertByWavenumber(SubSeq(sorted, 1, Len(sorted) - 1), pair),
                sorted[Len(sorted)])

RECURSIVE sortByWavenumber(_, _)
sortByWavenumber(pairs, k) ==
    IF k = 0 THEN <<>>
    ELSE insertByWavenumber(sortByWavenumber(pairs, k - 1), pairs[k])

\* the test of the removal loop, with >= in place of >
keeps_Inclusive(wavenumber, lastWn) == lastWn = Null \/ (IF wavenumber >= lastWn THEN wavenumber - lastWn ELSE lastWn - wavenumber) >= NearDuplicate

\* lastWn === null || Math.abs(pair.wavenumber - lastWn) > 0.01
keeps(wavenumber, lastWn) == lastWn = Null \/ (IF wavenumber >= lastWn THEN wavenumber - lastWn ELSE lastWn - wavenumber) > NearDuplicate

RECURSIVE removeNearDuplicates(_, _, _, _)
removeNearDuplicates(pairs, k, lastWn, cleaned) ==
    IF k > Len(pairs) THEN cleaned
    ELSE IF keeps(pairs[k].wavenumber, lastWn)
    THEN removeNearDuplicates(pairs, k + 1, pairs[k].wavenumber,
                              Append(cleaned, pairs[k]))
    ELSE removeNearDuplicates(pairs, k + 1, lastWn, cleaned)

cleanSpectrum(s) ==
    LET pairs == [ k \in 1..Len(s.wavenumber) |->
                     [ wavenumber |-> s.wavenumber[k],
                       transmittance |-> s.transmittance[k] ] ]
        cleaned == removeNearDuplicates(sortByWavenumber(pairs, Len(pairs)),
                                        1, Null, <<>>)
        transmittance == [k \in 1..Len(cleaned) |-> cleaned[k].transmittance]
    IN  [ wavenumber |-> [k \in 1..Len(cleaned) |-> cleaned[k].wavenumber],
          transmittance |-> transmittance,
          dataPoints |-> Len(cleaned),
          wavenumberRange |-> <<cleaned[1].wavenumber,
                                cleaned[Len(cleaned)].wavenumber>>,
          transmittanceRange |-> <<SeqMin(transmittance), SeqMax(transmittance)>> ]

\* ------------------------------------------------------------ uploader inputs
MaxRows == 11                    \* data rows of an uploaded file
RowCounts == (MinDataPoints - 1)..MaxRows

RowStarts == {99990, 1000000, 4990000}
RowSteps == {0, 5, 10, 11, 2000}

TransmittancePatterns ==
    {"zeros", "hundreds", "dip", "secondOnly", "above", "below"}

\* the transmittance of row k
transmittanceOf(pattern, k) ==
    CASE pattern = "zeros" -> 0
      [] pattern = "hundreds" -> MaxPercent
      [] pattern = "dip" -> IF k % 3 = 0 THEN 500 ELSE MaxPercent
      [] pattern = "secondOnly" -> IF k = 2 THEN 500 ELSE 0
      [] pattern = "above" -> IF k = 2 THEN MaxPercent + 200 ELSE 500 + k
      [] pattern = "below" -> IF k = 2 THEN 0 - 1 ELSE 500 + k

FirstLines == {"none", "header", "text"}
ExtraLines == {"none", "empty", "text", "single"}

\* the text of a file: an optional first line, the data rows, and an optional
\* line that is not a data row after the first row and at the end
csvTextOf(first, extra, n, start, step, order, pattern) ==
    LET axis == wavenumberAxis(start, step, n, order)
        rows == [k \in 1..n |-> line("data", axis[k], transmittanceOf(pattern, k))]
        other == line(extra, start, 0)
        body == IF extra = "none" THEN rows
                ELSE <<rows[1], other>> \o Tail(rows) \o <<other>>
    IN  IF first = "none" THEN body ELSE <<line(first, 0, 0)>> \o body

Files ==
    { [ accepted |-> a, readable |-> r,
        text |-> csvTextOf(first, extra, n, start, step, order, pattern) ] :
        a \in BOOLEAN, r \in BOOLEAN, first \in FirstLines, extra \in ExtraLines,
        n \in RowCounts, start \in RowStarts, step \in RowSteps,
        order \in AxisOrders, pattern \in TransmittancePatterns }

\* ------------------------------------------------------------ specification: upload, then detect
InitUpload ==
    /\ file \in Files
    /\ store = InitialStore
    /\ peaks = <<>>
    /\ rulesDb = [vibrationModes |-> <<>>]
    /\ annotations = <<>>
    /\ ambiguities = <<>>
    /\ gapThreshold = Undefined
    /\ summary = [totalPeaks |-> 0, annotatedPeaks |-> 0, ambiguousPeaks |-> 0]
    /\ signal = <<>>
    /\ found = <<>>
    /\ spectrum = <<>>
    /\ peakList = <<>>
    /\ args = <<>>
    /\ returned = <<>>
    /\ pc = "idle"

\* handleFileUpload: parse, clean, store; an error of any step is caught
HandleFileUpload ==
    /\ pc = "idle"
    /\ LET result == parseCSVFile(file)
       IN  IF result.error # ""
           THEN /\ store' = [store EXCEPT !.ui.status = "error"]
                /\ pc' = "uploadFailed"
           ELSE /\ store' = [store EXCEPT
                               !.spectrum = some(cleanSpectrum(result.spectrum[1])),
                               !.ui.status = "success"]
                /\ pc' = "uploaded"
    /\ UNCHANGED file
    /\ UNCHANGED matcherVars
    /\ UNCHANGED detectorVars
    /\ UNCHANGED functionVars

\* the options the store's detectPeaks passes to the detector
storeDetectOptions(params) ==
    [ smoothWindowLength |-> IF params.smoothingWindow = 0
                             THEN StoreSmoothingWindow
                             ELSE params.smoothingWindow,
      smoothPolyorder |-> DefaultSmoothPolyorder,
      baselineMethod |-> "linear",
      minHeight |-> IF params.peakHeightThreshold = 0
                    THEN StorePeakHeightThreshold
                    ELSE params.peakHeightThreshold,
      prominencePercent |-> DefaultProminencePercent,
      distancePercent |-> DefaultDistancePercent ]

\* !spectrum || !spectrum.wavenumber || !spectrum.absorbance
noSpectrumData(s) ==
    \/ s = null
    \/ "wavenumber" \notin DOMAIN s[1]
    \/ "absorbance" \notin DOMAIN s[1]

\* the store after its detectPeaks action
storeDetectPeaks(st) ==
    IF noSpectrumData(st.spectrum)
    THEN [st EXCEPT !.ui.status = "error"]
    ELSE LET s == st.spectrum[1]
             detectedPeaks ==
                 detectPeaks(s.wavenumber,
                             IF "transmittance" \in DOMAIN s
                             THEN s.transmittance ELSE s.absorbance,
                             storeDetectOptions(st.peakDetectionParams))
         IN  [st EXCEPT !.peaks = some(detectedPeaks),
                        !.annotations = null,
                        !.ambiguities = null,
                        !.ui.status = "success"]

StoreDetectPeaks ==
    /\ pc \in {"uploaded", "uploadFailed", "ready"}
    /\ store' = storeDetectPeaks(store)
    /\ pc' = CASE pc = "uploaded" -> "detectionRun"
             [] pc = "uploadFailed" -> "detectionRunWithoutSpectrum"
             [] OTHER -> pc
    /\ UNCHANGED file
    /\ UNCHANGED matcherVars
    /\ UNCHANGED detectorVars
    /\ UNCHANGED functionVars

NextUpload == HandleFileUpload \/ StoreDetectPeaks

SpecUpload == InitUpload /\ [][NextUpload]_vars

\* ------------------------------------------------------------ claims: upload
Uploaded == pc = "uploaded"
UploadFailed == pc = "uploadFailed"

\* what the claim requires of a stored spectrum
WellFormed(s) ==
    /\ Len(s.wavenumber) = Len(s.transmittance)
    /\ Len(s.wavenumber) >= MinDataPoints
    /\ \A k \in 1..Len(s.wavenumber) :
          s.wavenumber[k] >= MinWavenumber /\ s.wavenumber[k] <= MaxWavenumber
    /\ \A k \in 1..Len(s.transmittance) :
          s.transmittance[k] >= MinPercent /\ s.transmittance[k] <= MaxPercent
    /\ \E k \in 1..Len(s.transmittance) : s.transmittance[k] # 0
    /\ \E k \in 1..Len(s.transmittance) : s.transmittance[k] # MaxPercent

\* C16: every spectrum the upload flow hands to the store has two sequences
\* of equal length with at least 10 points, wavenumbers in [100, 5000],
\* transmittances in [0, 100] that are neither all 0 nor all 100; otherwise
\* the upload ends in an error and no spectrum is stored.
C16_StoredSpectrumIsValid ==
    /\ store.spectrum # null => WellFormed(store.spectrum[1])
    /\ UploadFailed => store.spectrum = null /\ store.ui.status = "error"

\* ------------------------------------------------------------ claims: cleanSpectrum
\* the spectrum parseCSVFile resolved with, which cleanSpectrum was given
ParsedSpectrum == parseCSVFile(file).spectrum[1]

\* the spectrum cleanSpectrum returned, which the uploader stored
CleanedSpectrum == store.spectrum[1]

\* C17: for every parsed spectrum, cleanSpectrum returns wavenumbers in
\* strictly ascending order with consecutive values more than 0.01 apart,
\* every returned (wavenumber, transmittance) pair is the pair at one index
\* of the input, and cleaning the output again changes nothing.
C17_CleanedIsSortedAndStable ==
    Uploaded =>
        /\ Len(CleanedSpectrum.transmittance) = Len(CleanedSpectrum.wavenumber)
        /\ \A k \in 1..(Len(CleanedSpectrum.wavenumber) - 1) :
              CleanedSpectrum.wavenumber[k + 1] - CleanedSpectrum.wavenumber[k]
                > NearDuplicate
        /\ \A k \in 1..Len(CleanedSpectrum.wavenumber) :
              \E j \in 1..Len(ParsedSpectrum.wavenumber) :
                  /\ CleanedSpectrum.wavenumber[k] = ParsedSpectrum.wavenumber[j]
                  /\ CleanedSpectrum.transmittance[k] = ParsedSpectrum.transmittance[j]
        /\ cleanSpectrum(CleanedSpectrum) = CleanedSpectrum

\* an out-of-order spectrum from which near-duplicates were removed
C17_Witness ==
    /\ Uploaded
    /\ \E j \in 1..(Len(ParsedSpectrum.wavenumber) - 1) :
          ParsedSpectrum.wavenumber[j] > ParsedSpectrum.wavenumber[j + 1]
    /\ Len(CleanedSpectrum.wavenumber) < Len(ParsedSpectrum.wavenumber)
    /\ Len(CleanedSpectrum.wavenumber) >= 3

\* ------------------------------------------------------------ the store's actions
\* the ambiguity filter of the store's annotatePeaks:
\* (conf1 - conf2) * 100 < (ambiguityThreshold || 10)
storeAmbiguous(annotation, ambiguityThreshold) ==
    LET candidates == annotation.topFiveCandidates
        threshold == IF ambiguityThreshold = 0 THEN StoreAmbiguityThreshold
                     ELSE ambiguityThreshold
    IN  /\ Len(candidates) >= 2
        /\ candidates[1].confidence - candidates[2].confidence < threshold * 100

\* the store after its annotatePeaks action, with the rules database db
storeAnnotatePeaks(st, db) ==
    IF st.peaks = null \/ Len(st.peaks[1]) = 0
    THEN [st EXCEPT !.ui.status = "error"]
    ELSE LET anns == matchAllPeaks(st.peaks[1], db)
         IN  [st EXCEPT
                !.annotations = some(anns),
                !.ambiguities =
                    some(SelectSeq(anns, LAMBDA a :
                           storeAmbiguous(a, st.ruleMatchingParams.ambiguityThreshold))),
                !.ui.status = "success"]

\* peakAnnotations with the entry of peakIndex replaced
withReview(peakAnnotations, peakIndex, entry) ==
    [ k \in DOMAIN peakAnnotations \cup {peakIndex} |->
        IF k = peakIndex THEN entry ELSE peakAnnotations[k] ]

\* ------------------------------------------------------------ store inputs
StorePositions == {1600000, 1715000}

StorePeakLists ==
    { s \in PeakLists :
        \A k \in 1..Len(s) : /\ s[k].position \in StorePositions
                              /\ s[k].intensity = 80000
                              /\ s[k].fwhm = 75010 }

\* the imported rules database
StoreRuleDatabases == {ModeRun(1, Len(Catalogue)), Single(3, 1), Single(4, 2)}

Tolerances == {5, 10}            \* percent, as the slider supplies them
AmbiguityThresholds == {10, 20}

\* ------------------------------------------------------------ specification: the store
InitStore ==
    /\ store = InitialStore
    /\ rulesDb \in StoreRuleDatabases
    /\ file = <<>>
    /\ peaks = <<>>
    /\ annotations = <<>>
    /\ ambiguities = <<>>
    /\ gapThreshold = Undefined
    /\ summary = [totalPeaks |-> 0, annotatedPeaks |-> 0, ambiguousPeaks |-> 0]
    /\ signal = <<>>
    /\ found = <<>>
    /\ spectrum = <<>>
    /\ peakList = <<>>
    /\ args = <<>>
    /\ returned = <<>>
    /\ pc = "ready"

StoreFrame ==
    /\ UNCHANGED <<file, pc>>
    /\ UNCHANGED matcherVars
    /\ UNCHANGED detectorVars
    /\ UNCHANGED functionVars

SetPeaks ==
    /\ pc = "ready"
    /\ \E p \in StorePeakLists : store' = [store EXCEPT !.peaks = some(p)]
    /\ StoreFrame

\* handleToleranceChange, handleAmbiguityChange
UpdateRuleMatchingParams ==
    /\ pc = "ready"
    /\ \/ \E t \in Tolerances :
             store' = [store EXCEPT !.ruleMatchingParams.wavenumberTolerance = t]
       \/ \E t \in AmbiguityThresholds :
             store' = [store EXCEPT !.ruleMatchingParams.ambiguityThreshold = t]
    /\ StoreFrame

StoreAnnotatePeaks ==
    /\ pc = "ready"
    /\ store' = storeAnnotatePeaks(store, rulesDb)
    /\ StoreFrame

\* the review panel lists the annotations and their candidates
SelectAnnotation ==
    /\ pc = "ready"
    /\ store.annotations # null
    /\ \E peakIndex \in 0..(Len(store.annotations[1]) - 1) :
         \E candidateIndex \in
               0..(Len(store.annotations[1][peakIndex + 1].topFiveCandidates) - 1) :
             store' = [store EXCEPT !.peakAnnotations =
                         withReview(@, peakIndex,
                                    [candidateIndex |-> candidateIndex,
                                     skipped |-> FALSE])]
    /\ StoreFrame

SkipAnnotation ==
    /\ pc = "ready"
    /\ store.annotations # null
    /\ \E peakIndex \in 0..(Len(store.annotations[1]) - 1) :
             store' = [store EXCEPT !.peakAnnotations =
                         withReview(@, peakIndex,
                                    [candidateIndex |-> Null, skipped |-> TRUE])]
    /\ StoreFrame

\* setAnnotationResults with the result of the library's annotatePeaks
SetAnnotationResults ==
    /\ pc = "ready"
    /\ store.peaks # null
    /\ LET results == annotatePeaks(store.peaks[1], rulesDb, InlineGap)
       IN  store' = [store EXCEPT !.annotations = some(results.annotations),
                                  !.ambiguities = some(results.ambiguities),
                                  !.peakAnnotations = <<>>]
    /\ StoreFrame

\* clearSpectrum, and reset (which differ in ui fields left out here)
ClearSpectrum ==
    /\ pc = "ready"
    /\ store' = [store EXCEPT !.spectrum = null,
                              !.peaks = null,
                              !.annotations = null,
                              !.ambiguities = null,
                              !.ui.status = "idle"]
    /\ StoreFrame

NextStore ==
    \/ SetPeaks
    \/ UpdateRuleMatchingParams
    \/ StoreAnnotatePeaks
    \/ SelectAnnotation
    \/ SkipAnnotation
    \/ SetAnnotationResults
    \/ StoreDetectPeaks
    \/ ClearSpectrum

SpecStore == InitStore /\ [][NextStore]_vars

\* ------------------------------------------------------------ claims: the store
\* some subtype of the database passes the wavenumber gate with the given
\* tolerance (percent of the range span) and the shape test for the peak
passesWithTolerance(peak, db, tolerance) ==
    \E m \in 1..Len(db.vibrationModes) :
        \E j \in 1..Len(db.vibrationModes[m].subTypes) :
            LET subtype == db.vibrationModes[m].subTypes[j]
            IN  /\ wavenumberMatch(peak.position, primaryRangeOf(subtype), tolerance)
                /\ shapeMatch(peak.fwhm, primaryShapeOf(subtype)).ok

\* C18: when the store's annotatePeaks action runs with
\* ruleMatchingParams.wavenumberTolerance = t percent, the wavenumber gate
\* uses tol = (max - min) * t / 100: every peak that passes the t% gate and
\* the shape test of some subtype is annotated, also when it lies outside the
\* 5% band.
C18_ToleranceIsApplied ==
    [][ (StoreAnnotatePeaks /\ store.peaks # null /\ store'.ui.status = "success")
        => \A k \in 1..Len(store.peaks[1]) :
             passesWithTolerance(store.peaks[1][k], rulesDb,
                                 store.ruleMatchingParams.wavenumberTolerance)
             => \E a \in 1..Len(store'.annotations[1]) :
                    store'.annotations[1][a].peakIndex = k - 1 ]_vars

\* C19: whenever the store's annotations are replaced by a new annotation
\* run or removed, the review state peakAnnotations is emptied; so in every
\* reachable state each peakAnnotations entry belongs to an annotation of
\* the current annotations, and a selected candidateIndex is a valid index
\* into that annotation's topFiveCandidates.
C19_ReviewStateMatchesAnnotations ==
    \A k \in DOMAIN store.peakAnnotations :
        /\ store.annotations # null
        /\ k < Len(store.annotations[1])
        /\ ~store.peakAnnotations[k].skipped
           => store.peakAnnotations[k].candidateIndex
                < Len(store.annotations[1][k + 1].topFiveCandidates)

\* ------------------------------------------------------------ claims: the workflow
\* C20: after an upload has succeeded and its spectrum (fields wavenumber and
\* transmittance) is stored, the store's detectPeaks action ends with peaks
\* set to a list, possibly empty, and ui.status 'success'.
C20_DetectAfterUploadSucceeds ==
    pc = "detectionRun" =>
        /\ store.peaks # null
        /\ store.ui.status = "success"

\* ------------------------------------------------------------ claims: the shape check
\* the outcome the shape rule prescribes for an FWHM and a shape class
ShapeExpected(fwhm, shape) ==
    IF shape \notin DOMAIN shapeSpecs THEN [ok |-> TRUE, bonus |-> 0]
    ELSE IF 1000 * shapeSpecs[shape][1] <= fwhm /\ fwhm <= 1000 * shapeSpecs[shape][2]
    THEN [ok |-> TRUE, bonus |-> 500]
    ELSE IF 10 * fwhm < 7 * 1000 * shapeSpecs[shape][1]
              \/ 2 * fwhm > 3 * 1000 * shapeSpecs[shape][2]
    THEN [ok |-> FALSE, bonus |-> 0]
    ELSE [ok |-> TRUE, bonus |-> 0]

\* the positions in a candidate list of those built from a database entry
BuiltFrom(slot, candidates) ==
    { j \in 1..Len(candidates) :
        /\ candidates[j].ruleKey = KeyOf(slot)
        /\ candidates[j].ruleSubtype = IdOf(slot) }

\* C21: the shape check passes with bonus +0.05 when the FWHM lies inside
\* the band of the shape class (bounds included), fails when the FWHM is
\* below 0.7 * band.min or above 1.5 * band.max, passes with bonus 0 in
\* between, and passes with bonus 0 for a class that is not in the table; a
\* peak at 1715 with FWHM 30 against a sharp subtype with range [1700, 1750]
\* and base 0.7 gets confidence 0.75 when no other bonus applies.
C21_ShapeCheck ==
    Matched =>
        \A i \in 1..Len(peaks) :
          LET candidates == Collected(i)
          IN  \A slot \in SubtypeSlots :
            LET subtype == SubtypeAt(slot)
                expected == ShapeExpected(peaks[i].fwhm, primaryShapeOf(subtype))
                built == BuiltFrom(slot, candidates)
            IN  GateExpected(peaks[i].position, primaryRangeOf(subtype)) =>
                  /\ expected.ok <=> built # {}
                  /\ primaryShapeOf(subtype) \notin DOMAIN shapeSpecs => built # {}
                  /\ \A j \in built :
                        LET c == candidates[j]
                        IN  /\ c.scoring.shapeBonus = expected.bonus
                            /\ c.scoring.shapeMatch
                            /\ ( /\ peaks[i].position = 1715000
                                 /\ peaks[i].fwhm = 30000
                                 /\ primaryShapeOf(subtype) = "sharp"
                                 /\ primaryRangeOf(subtype) = Range(1700, 1750)
                                 /\ c.scoring.baseConfidence = 7000
                                 /\ c.scoring.intensityBonus = 0
                                 /\ subtype.secondaryPeaks = <<>> )
                               => c.confidence = 7500

\* the peak at 1715 with FWHM 30 scored 0.75 against the sharp subtype, was
\* scored without bonus against a subtype of an unlisted class and was
\* rejected on shape by another; a second peak whose FWHM is the upper bound
\* of one band and 1.5 times the upper bound of another got the bonus from
\* the first and none from the second
C21_Witness ==
    /\ Matched
    /\ \E slot \in CandidateSlots :
         LET c == CandidateAt(slot)
         IN  /\ peaks[c.peakIndex + 1].position = 1715000
             /\ peaks[c.peakIndex + 1].fwhm = 30000
             /\ c.ruleSubtype = "ketone"
             /\ c.confidence = 7500
    /\ \E slot \in CandidateSlots :
         LET c == CandidateAt(slot)
         IN  /\ peaks[c.peakIndex + 1].fwhm = 30000
             /\ primaryShapeOf(SubtypeAt(SlotOf(c))) \notin DOMAIN shapeSpecs
             /\ c.scoring.shapeBonus = 0
    /\ \E i \in 1..Len(peaks) : \E slot \in SubtypeSlots :
         /\ peaks[i].fwhm = 30000
         /\ GateExpected(peaks[i].position, primaryRangeOf(SubtypeAt(slot)))
         /\ ~ShapeExpected(peaks[i].fwhm, primaryShapeOf(SubtypeAt(slot))).ok
    /\ \E slot \in CandidateSlots :
         LET c == CandidateAt(slot)
             shape == primaryShapeOf(SubtypeAt(SlotOf(c)))
         IN  /\ shape \in DOMAIN shapeSpecs
             /\ peaks[c.peakIndex + 1].fwhm = 1000 * shapeSpecs[shape][2]
             /\ c.scoring.shapeBonus = 500
    /\ \E slot \in CandidateSlots :
         LET c == CandidateAt(slot)
             shape == primaryShapeOf(SubtypeAt(SlotOf(c)))
         IN  /\ shape \in DOMAIN shapeSpecs
             /\ peaks[c.peakIndex + 1].fwhm = 1500 * shapeSpecs[shape][2]
             /\ c.scoring.shapeBonus = 0

\* ------------------------------------------------------------ claims: the base term
\* C22: the base term of a candidate's confidence is the base confidence its
\* subtype declares, for every declared value in [0, 1] including 0, and 0.7
\* only when the subtype declares none.
C22_BaseIsDeclaredConfidence ==
    Matched =>
        \A slot \in CandidateSlots :
            LET c == CandidateAt(slot)
                subtype == SubtypeAt(SlotOf(c))
            IN  c.scoring.baseConfidence =
                    IF subtype.confidence = Undefined THEN 7000
                    ELSE subtype.confidence

\* ------------------------------------------------------------ claims: secondary peaks
\* the peaks that satisfy a secondary spec of a subtype matched to peak i:
\* inside the spec's range widened by a tenth of its span on each side, and
\* no further than 200 cm-1 from peak i
SecondaryHits(i, spec) ==
    LET range == IF spec.wavenumber = <<>> THEN <<0, 10000000>> ELSE spec.wavenumber
        span == range[2] - range[1]
    IN  { p \in 1..Len(peaks) :
            /\ 10 * range[1] - span <= 10 * peaks[p].position
            /\ 10 * peaks[p].position <= 10 * range[2] + span
            /\ peaks[p].position - peaks[i].position <= 200000
            /\ peaks[i].position - peaks[p].position <= 200000 }

\* the specs of a list that some peak satisfies, for primary peak i
MatchedSpecs(i, specs) == { k \in 1..Len(specs) : SecondaryHits(i, specs[k]) # {} }

\* C23: a secondary spec is matched exactly when some detected peak lies in
\* its range widened by 10% of the span and within 200 cm-1 of the primary
\* peak; the recorded match is the first such peak of the peak list, a spec
\* contributes at most one match, and secondaryPeaksFound is the number of
\* matched specs whenever no required spec is missing.
C23_SecondaryMatches ==
    Matched =>
        \A slot \in CandidateSlots :
            LET c == CandidateAt(slot)
                i == c.peakIndex + 1
                specs == SubtypeAt(SlotOf(c)).secondaryPeaks
                matched == MatchedSpecs(i, specs)
                matches == findSecondaryPeaks(c.peakIndex, specs, peaks, MaxWavenumberGap)
            IN  (\A k \in 1..Len(specs) : specs[k].required => k \in matched) =>
                  /\ c.secondaryPeaksFound = Cardinality(matched)
                  /\ Len(matches) = Cardinality(matched)
                  /\ \A n \in 1..Len(matches) :
                        \E k \in matched :
                            /\ Cardinality({ j \in matched : j <= k }) = n
                            /\ matches[n].spec = specs[k]
                            /\ matches[n].peakIdx + 1 \in SecondaryHits(i, specs[k])
                            /\ \A p \in SecondaryHits(i, specs[k]) :
                                   matches[n].peakIdx + 1 <= p

\* a candidate with a spec that two peaks satisfy, the first of them not
\* being the last, and a candidate with an unmatched spec that is not required
C23_Witness ==
    /\ Matched
    /\ \E slot \in CandidateSlots :
         LET c == CandidateAt(slot)
             specs == SubtypeAt(SlotOf(c)).secondaryPeaks
         IN  /\ c.secondaryPeaksFound = 1
             /\ Len(specs) = 1
             /\ Cardinality(SecondaryHits(c.peakIndex + 1, specs[1])) = 2
    /\ \E slot \in CandidateSlots :
         LET c == CandidateAt(slot)
             specs == SubtypeAt(SlotOf(c)).secondaryPeaks
         IN  /\ c.secondaryPeaksFound = 0
             /\ Len(specs) = 1
             /\ ~specs[1].required
             /\ SecondaryHits(c.peakIndex + 1, specs[1]) = {}

\* C29: the peak that satisfies a secondary spec is a peak other than the
\* primary peak: no candidate counts a secondary match, and none escapes the
\* halving for a missing required spec, because of the primary peak's own
\* position.
C29_SecondaryIsAnotherPeak ==
    Matched =>
        \A slot \in CandidateSlots :
            LET c == CandidateAt(slot)
                i == c.peakIndex + 1
                specs == SubtypeAt(SlotOf(c)).secondaryPeaks
                byOthers == { k \in 1..Len(specs) :
                                SecondaryHits(i, specs[k]) \ {i} # {} }
            IN  /\ c.secondaryPeaksFound <= Cardinality(byOthers)
                /\ c.scoring.secondaryBonus <= 1000 * Cardinality(byOthers)

\* ------------------------------------------------------------ claims: positions in the store
\* C28: whenever the store holds both peaks and annotations, the annotation
\* at array position k describes the peak at array position k
\* (annotations[k].peakIndex = k).
C28_AnnotationsAlignedWithPeaks ==
    (store.peaks # null /\ store.annotations # null) =>
        \A k \in 1..Len(store.annotations[1]) :
            store.annotations[1][k].peakIndex = k - 1

\* ------------------------------------------------------------ PeakReviewPanel
\* the card the panel renders for the annotation at position peakIdx (0-based):
\* status is the peakAnnotations entry or the empty object, and
\* `status.candidateIndex !== null` holds for a missing field as well
peakCard(st, peakIdx) ==
    LET status == IF peakIdx \in DOMAIN st.peakAnnotations
                  THEN st.peakAnnotations[peakIdx]
                  ELSE <<>>
        isAnnotated == ~ ( /\ "candidateIndex" \in DOMAIN status
                           /\ status.candidateIndex = Null )
        isSkipped == "skipped" \in DOMAIN status /\ status.skipped
    IN  [ className |-> IF isAnnotated THEN "annotated"
                        ELSE IF isSkipped THEN "skipped" ELSE "",
          annotatedBadge |-> isAnnotated,
          skippedBadge |-> isSkipped ]

\* C30: a card is shown as annotated only when the store holds a selected
\* candidate for its peak: without an entry in peakAnnotations it is shown as
\* neither annotated nor skipped, and after skipAnnotation as skipped and
\* not annotated; the latest selectAnnotation or skipAnnotation decides.
C30_CardShowsReviewState ==
    store.annotations # null =>
        \A k \in 0..(Len(store.annotations[1]) - 1) :
            LET card == peakCard(store, k)
                shownAnnotated == card.className = "annotated" \/ card.annotatedBadge
                shownSkipped == card.className = "skipped" \/ card.skippedBadge
            IN  IF k \notin DOMAIN store.peakAnnotations
                THEN ~shownAnnotated /\ ~shownSkipped
                ELSE IF store.peakAnnotations[k].skipped
                THEN shownSkipped /\ ~shownAnnotated
                ELSE shownAnnotated /\ ~shownSkipped

\* ------------------------------------------------------------ specification: long signals
MaxLongLen == 53                 \* samples of the longest signal
LongLens == 52..MaxLongLen

\* a signal of n samples with one spike at index p and one dip at index d
\* (both 0-based; no dip when d = p), on a plateau of one level left and one
\* right of the spike
spike(n, p, d, leftLevel, rightLevel) ==
    [ k \in 1..n |->
        IF k - 1 = p THEN 80000
        ELSE IF k - 1 = d THEN 0
        ELSE IF k - 1 < p THEN leftLevel ELSE rightLevel ]

SpikePositions == {1, 50, 51}
PlateauLevels == {0, 40000}

LongSignalInputs ==
    UNION { [ data : { spike(n, p, d, l, r) :
                         p \in SpikePositions \cap 1..(n - 2),
                         d \in 0..(n - 1),
                         l \in PlateauLevels, r \in PlateauLevels },
              height : {DefaultHeight},
              prominence : {Null, 3000000, 6000000},
              distance : {Null} ] :
            n \in LongLens }

InitLong ==
    /\ signal \in LongSignalInputs
    /\ found = <<>>
    /\ spectrum = <<>>
    /\ peakList = <<>>
    /\ peaks = <<>>
    /\ rulesDb = [vibrationModes |-> <<>>]
    /\ annotations = <<>>
    /\ ambiguities = <<>>
    /\ gapThreshold = Undefined
    /\ summary = [totalPeaks |-> 0, annotatedPeaks |-> 0, ambiguousPeaks |-> 0]
    /\ args = <<>>
    /\ returned = <<>>
    /\ file = <<>>
    /\ store = InitialStore
    /\ pc = "idle"

SpecLong == InitLong /\ [][NextFindPeaks]_vars

\* ------------------------------------------------------------ claims: prominence
\* the minimum of a signal over the indices lo..hi (0-based), cut at its ends
MinBetween(data, lo, hi, start) ==
    LET values == { At(data, j) : j \in Max(0, lo)..Min(Len(data) - 1, hi) } \cup {start}
    IN  CHOOSE v \in values : \A w \in values : v <= w

\* prominence over windows of 50 samples on each side of index i
SymmetricProminence(data, i) ==
    Min(At(data, i) - MinBetween(data, i - 50, i - 1, At(data, i)),
        At(data, i) - MinBetween(data, i + 1, i + 50, At(data, i)))

\* C24: the prominence of a local maximum i is
\* min(signal[i] - minLeft, signal[i] - minRight) with minLeft the minimum of
\* the up-to-50 samples left of i and minRight the minimum of the same
\* number, up to 50, of samples right of i; a maximum that reaches the
\* height is kept exactly when this prominence reaches the threshold.
C24_SymmetricProminenceWindows ==
    pc = "peaksFound" =>
        LET data == signal.data
            prominence == IF signal.prominence = Null THEN autoProminence(data)
                          ELSE signal.prominence
        IN  \A i \in 1..(Len(data) - 2) :
                ( /\ At(data, i) > At(data, i - 1)
                  /\ At(data, i) > At(data, i + 1)
                  /\ Scale * At(data, i) >= signal.height
                  /\ \A m \in 1..Len(found.peaks) :
                        found.peaks[m] = i \/ Abs(found.peaks[m] - i) >= 2 )
                => ( (\E m \in 1..Len(found.peaks) : found.peaks[m] = i)
                     <=> Scale * SymmetricProminence(data, i) >= prominence )

\* C25: the prominence reported for each kept peak is that peak's own
\* prominence min(signal[i] - minLeft, signal[i] - minRight), so that peaks of
\* different prominence in one signal are reported with different values.
C25_ReportedProminenceIsOwn ==
    pc = "peaksFound" =>
        \A k \in 1..Len(found.peaks) :
            found.properties.prominences[k]
                = Scale * peakProminence(signal.data, found.peaks[k])

\* ------------------------------------------------------------ claims: width
\* the indices between lo and hi at which the signal is strictly below half
\* the height of the peak at peakIdx
BelowHalf(data, lo, hi, peakIdx) ==
    { j \in lo..hi : 2 * At(data, j) < At(data, peakIdx) }

\* C26: the width of a kept peak is rightEdge - leftEdge, each edge being the
\* nearest index on its side at which the signal is strictly below half the
\* peak height, or the signal boundary on that side when the signal never
\* drops below half height there; with a drop on both sides the width is at
\* least 2.
C26_WidthBetweenHalfHeightEdges ==
    pc = "peaksFound" =>
        \A k \in 1..Len(found.peaks) :
            LET data == signal.data
                i == found.peaks[k]
                lefts == BelowHalf(data, 0, i - 1, i)
                rights == BelowHalf(data, i + 1, Len(data) - 1, i)
                left == IF lefts = {} THEN 0
                        ELSE CHOOSE j \in lefts : \A h \in lefts : h <= j
                right == IF rights = {} THEN Len(data) - 1
                         ELSE CHOOSE j \in rights : \A h \in rights : j <= h
            IN  /\ found.properties.width[k] = right - left
                /\ (lefts # {} /\ rights # {}) => found.properties.width[k] >= 2

\* ------------------------------------------------------------ claims: alignment of the smoothed signal
\* C27: at every index i, also where the window is truncated by an end of
\* the signal, the smoothed value is the local fit evaluated at sample i
\* itself, so that the output stays aligned index for index with the input.
C27_SmoothedAtOwnIndex ==
    (Smoothed /\ Len(args.data) >= WindowUsed) =>
        \A k \in 1..Len(args.data) :
            LET i == k - 1
                half == WindowUsed \div 2
                start == Max(0, i - half)
                end == Min(Len(args.data), i + half + 1)
                fitted == fitPolynomial(sliceOf(args.data, start, end), args.polyorder)
            IN  returned[k] = At(fitted, i - start)

====
